---- MODULE Spec2Model ----
(***************************************************************************)
(* Private Vault (src/src/utils/vault.js): envelope encryption with a      *)
(* per-session unlock.  The model keeps the module-level state of the      *)
(* vault (_dek, _idleMin, _idleTimer, _activityBound), the localStorage    *)
(* item that holds the vault metadata, the timers of the event loop and    *)
(* the asynchronous calls that are suspended at an await.                  *)
(*                                                                         *)
(* Texts that the code handles character by character (base64url texts,   *)
(* entry bodies) are sequences of character codes; byte buffers are        *)
(* sequences of 0..255.  Secrets, table names and entry ids are strings.   *)
(***************************************************************************)
EXTENDS Integers, Sequences, FiniteSets, TLC

(***************************************************************************)
(* Small helpers on sequences and numbers.                                 *)
(***************************************************************************)
Max(a, b) == IF a >= b THEN a ELSE b

Last(s) == s[Len(s)]
Front(s) == SubSeq(s, 1, Len(s) - 1)

RECURSIVE Pow2(_)
Pow2(n) == IF n = 0 THEN 1 ELSE 2 * Pow2(n - 1)

\* x with bit k (0 = least significant) inverted
FlipBit(x, k) == IF (x \div Pow2(k)) % 2 = 1 THEN x - Pow2(k) ELSE x + Pow2(k)

(***************************************************************************)
(* btoa / atob and the URL-safe wrapping of vault.js:20-31.                *)
(***************************************************************************)
\* the 64 characters of the base64 alphabet, by value
B64Char(v) ==
    IF v < 26 THEN 65 + v
    ELSE IF v < 52 THEN 97 + (v - 26)
    ELSE IF v < 62 THEN 48 + (v - 52)
    ELSE IF v = 62 THEN 43 ELSE 47

\* the value of a character of the alphabet, -1 for any other character
B64Val(c) ==
    IF c >= 65 /\ c <= 90 THEN c - 65
    ELSE IF c >= 97 /\ c <= 122 THEN c - 97 + 26
    ELSE IF c >= 48 /\ c <= 57 THEN c - 48 + 52
    ELSE IF c = 43 THEN 62
    ELSE IF c = 47 THEN 63 ELSE 0 - 1

\* btoa: every three bytes give four characters; a last group of one or
\* two bytes is completed with '='
btoa(b) ==
    [j \in 1..(4 * ((Len(b) + 2) \div 3)) |->
        LET g == (j - 1) \div 4
            k == (j - 1) % 4
            b1 == b[3 * g + 1]
            b2 == IF 3 * g + 2 <= Len(b) THEN b[3 * g + 2] ELSE 0
            b3 == IF 3 * g + 3 <= Len(b) THEN b[3 * g + 3] ELSE 0
        IN  IF k = 0 THEN B64Char(b1 \div 4)
            ELSE IF k = 1 THEN B64Char((b1 % 4) * 16 + b2 \div 16)
            ELSE IF k = 2 THEN
                (IF 3 * g + 2 > Len(b) THEN 61 ELSE B64Char((b2 % 16) * 4 + b3 \div 64))
            ELSE
                (IF 3 * g + 3 > Len(b) THEN 61 ELSE B64Char(b3 % 64))]

\* s.replace(/=+$/, '')
RECURSIVE StripPad(_)
StripPad(s) ==
    IF Len(s) > 0 /\ Last(s) = 61 THEN StripPad(Front(s)) ELSE s

\* s.replace(/\+/g,'-').replace(/\//g,'_')
ToUrlAlphabet(s) ==
    [i \in 1..Len(s) |-> IF s[i] = 43 THEN 45 ELSE IF s[i] = 47 THEN 95 ELSE s[i]]

\* s.replace(/-/g,'+').replace(/_/g,'/')
FromUrlAlphabet(s) ==
    [i \in 1..Len(s) |-> IF s[i] = 45 THEN 43 ELSE IF s[i] = 95 THEN 47 ELSE s[i]]

b64u(buf) == StripPad(ToUrlAlphabet(btoa(buf)))

\* while (s.length % 4) s += '='
RECURSIVE PadTo4(_)
PadTo4(s) == IF Len(s) % 4 = 0 THEN s ELSE PadTo4(Append(s, 61))

IsAsciiWhitespace(c) == c \in {9, 10, 12, 13, 32}

\* the value atob and b64uToBuf give for a text that does not decode
DecodeError == << 0 - 1 >>

\* the bytes of a run of alphabet characters; a last group of two or three
\* characters gives one or two bytes and its remaining bits are dropped
DecodeGroups(s) ==
    [i \in 1..(3 * (Len(s) \div 4)
               + (IF Len(s) % 4 = 2 THEN 1 ELSE IF Len(s) % 4 = 3 THEN 2 ELSE 0)) |->
        LET g == (i - 1) \div 3
            k == (i - 1) % 3
        IN  IF k = 0 THEN
                B64Val(s[4 * g + 1]) * 4 + B64Val(s[4 * g + 2]) \div 16
            ELSE IF k = 1 THEN
                (B64Val(s[4 * g + 2]) % 16) * 16 + B64Val(s[4 * g + 3]) \div 4
            ELSE
                (B64Val(s[4 * g + 3]) % 4) * 64 + B64Val(s[4 * g + 4])]

\* atob, after the ASCII whitespace and the padding were removed
DecodeUnpadded(s) ==
    IF Len(s) % 4 = 1 THEN DecodeError
    ELSE IF \E i \in 1..Len(s) : B64Val(s[i]) < 0 THEN DecodeError
    ELSE DecodeGroups(s)

\* atob, after the ASCII whitespace was removed: one or two '=' at the end
\* of a text of 4n characters are padding
DecodeNoWhitespace(s) ==
    DecodeUnpadded(
        IF Len(s) % 4 = 0 /\ Len(s) >= 2 /\ s[Len(s)] = 61 /\ s[Len(s) - 1] = 61
            THEN SubSeq(s, 1, Len(s) - 2)
        ELSE IF Len(s) % 4 = 0 /\ Len(s) >= 1 /\ s[Len(s)] = 61
            THEN SubSeq(s, 1, Len(s) - 1)
        ELSE s)

\* atob: the forgiving-base64 decode of the platform
atob(s) == DecodeNoWhitespace(SelectSeq(s, LAMBDA c : ~IsAsciiWhitespace(c)))

b64uToBuf(s) == atob(PadTo4(FromUrlAlphabet(s)))

(***************************************************************************)
(* TextEncoder.encode / TextDecoder.decode (vault.js:17-18).  A JavaScript *)
(* string is a sequence of UTF-16 code units.                              *)
(***************************************************************************)
IsHighSurrogate(u) == u >= 55296 /\ u <= 56319
IsLowSurrogate(u) == u >= 56320 /\ u <= 57343

\* the UTF-8 bytes of one code point
Utf8Bytes(cp) ==
    IF cp < 128 THEN << cp >>
    ELSE IF cp < 2048 THEN << 192 + (cp \div 64), 128 + (cp % 64) >>
    ELSE IF cp < 65536 THEN
        << 224 + (cp \div 4096), 128 + ((cp \div 64) % 64), 128 + (cp % 64) >>
    ELSE
        << 240 + (cp \div 262144), 128 + ((cp \div 4096) % 64),
           128 + ((cp \div 64) % 64), 128 + (cp % 64) >>

\* the length of the longest prefix of s whose elements are below 128: such
\* a code unit is encoded as one byte of its value, and such a byte is
\* decoded as one code unit of its value
AsciiPrefix(s) ==
    IF \A i \in 1..Len(s) : s[i] < 128 THEN Len(s)
    ELSE (CHOOSE i \in 1..Len(s) :
              s[i] >= 128 /\ \A j \in 1..(i - 1) : s[j] < 128) - 1

\* textEnc.encode: a surrogate pair is one code point, a surrogate on its
\* own is encoded as U+FFFD
RECURSIVE textEncEncode(_)
textEncEncode(str) ==
    IF Len(str) = 0 THEN << >>
    ELSE IF AsciiPrefix(str) > 0 THEN
        SubSeq(str, 1, AsciiPrefix(str))
        \o textEncEncode(SubSeq(str, AsciiPrefix(str) + 1, Len(str)))
    ELSE IF IsHighSurrogate(str[1]) /\ Len(str) >= 2 /\ IsLowSurrogate(str[2]) THEN
        Utf8Bytes(65536 + (str[1] - 55296) * 1024 + (str[2] - 56320))
        \o textEncEncode(SubSeq(str, 3, Len(str)))
    ELSE IF IsHighSurrogate(str[1]) \/ IsLowSurrogate(str[1]) THEN
        Utf8Bytes(65533) \o textEncEncode(SubSeq(str, 2, Len(str)))
    ELSE
        Utf8Bytes(str[1]) \o textEncEncode(SubSeq(str, 2, Len(str)))

IsCont(b) == b >= 128 /\ b <= 191

\* the code units of one code point
CodeUnits(cp) ==
    IF cp < 65536 THEN << cp >>
    ELSE << 55296 + (cp - 65536) \div 1024, 56320 + ((cp - 65536) % 1024) >>

\* the UTF-8 decoder with replacement: a byte that starts no well-formed
\* sequence gives U+FFFD
RECURSIVE Utf8Decode(_)
Utf8Decode(b) ==
    IF Len(b) = 0 THEN << >>
    ELSE IF b[1] < 128 THEN
        SubSeq(b, 1, AsciiPrefix(b))
        \o Utf8Decode(SubSeq(b, AsciiPrefix(b) + 1, Len(b)))
    ELSE IF b[1] >= 194 /\ b[1] <= 223 /\ Len(b) >= 2 /\ IsCont(b[2]) THEN
        << (b[1] - 192) * 64 + (b[2] - 128) >>
        \o Utf8Decode(SubSeq(b, 3, Len(b)))
    ELSE IF /\ b[1] >= 224 /\ b[1] <= 239 /\ Len(b) >= 3
            /\ IsCont(b[2]) /\ IsCont(b[3])
            /\ (b[1] = 224 => b[2] >= 160)
            /\ (b[1] = 237 => b[2] <= 159) THEN
        << (b[1] - 224) * 4096 + (b[2] - 128) * 64 + (b[3] - 128) >>
        \o Utf8Decode(SubSeq(b, 4, Len(b)))
    ELSE IF /\ b[1] >= 240 /\ b[1] <= 244 /\ Len(b) >= 4
            /\ IsCont(b[2]) /\ IsCont(b[3]) /\ IsCont(b[4])
            /\ (b[1] = 240 => b[2] >= 144)
            /\ (b[1] = 244 => b[2] <= 143) THEN
        CodeUnits((b[1] - 240) * 262144 + (b[2] - 128) * 4096
                  + (b[3] - 128) * 64 + (b[4] - 128))
        \o Utf8Decode(SubSeq(b, 5, Len(b)))
    ELSE
        << 65533 >> \o Utf8Decode(SubSeq(b, 2, Len(b)))

\* textDec.decode: new TextDecoder() has ignoreBOM false, so a byte order
\* mark at the start of the input is consumed and not returned
textDecDecode(b) ==
    IF Len(b) >= 3 /\ b[1] = 239 /\ b[2] = 187 /\ b[3] = 191
        THEN Utf8Decode(SubSeq(b, 4, Len(b)))
        ELSE Utf8Decode(b)

(***************************************************************************)
(* Number and byte formatting.                                             *)
(***************************************************************************)
\* String(n) of a non-negative integer, as used by a template literal
RECURSIVE NumberToString(_)
NumberToString(n) ==
    IF n < 10 THEN << 48 + n >>
    ELSE Append(NumberToString(n \div 10), 48 + (n % 10))

\* one hexadecimal digit, upper case
HexDigit(d) == IF d < 10 THEN 48 + d ELSE 65 + (d - 10)

\* v.toString(16).padStart(2,'0') ... toUpperCase() over the bytes
RECURSIVE HexOf(_)
HexOf(b) ==
    IF Len(b) = 0 THEN << >>
    ELSE << HexDigit(b[1] \div 16), HexDigit(b[1] % 16) >>
         \o HexOf(SubSeq(b, 2, Len(b)))

\* hex.match(/.{1,4}/g).join('-')
RECURSIVE GroupsOf4(_)
GroupsOf4(h) ==
    IF Len(h) <= 4 THEN h
    ELSE SubSeq(h, 1, 4) \o << 45 >> \o GroupsOf4(SubSeq(h, 5, Len(h)))

(***************************************************************************)
(* Program constants.                                                      *)
(***************************************************************************)
\* 'cp:vault:dek:v1', the associated data of both wraps
DekAad == << 99, 112, 58, 118, 97, 117, 108, 116, 58, 100, 101, 107, 58, 118, 49 >>
DekBytes == 32
IvBytes == 12
SaltBytes == 16
RecoveryBytes == 16
\* AES-GCM without a tagLength: a 128-bit tag follows the ciphertext
TagBytes == 16
DefaultIterations == 150000
DefaultIdleMin == 15
MinPassLen == 8
MsPerMinute == 60000

(***************************************************************************)
(* crypto.getRandomValues: the n bytes of draw number seed.  Draws are     *)
(* numbered by the counter rnd, so two draws never give the same bytes.    *)
(***************************************************************************)
randBytes(seed, n) == [i \in 1..n |-> (seed * 83 + i * 29) % 256]

generateRecoveryCode(seed) == GroupsOf4(HexOf(randBytes(seed, RecoveryBytes)))

(***************************************************************************)
(* CryptoKey objects.  A key is the material it was made from and the      *)
(* extractable flag given to importKey / deriveKey.                        *)
(***************************************************************************)
NoKey == [kind |-> "null"]

importKeyRaw(bytes, extractable) ==
    [kind |-> "key", src |-> "raw", bytes |-> bytes, salt |-> << >>,
     iterations |-> 0, extractable |-> extractable]

\* PBKDF2-SHA-256 over the UTF-8 bytes of the passphrase
deriveKEK(passphrase, saltB64u, iterations) ==
    [kind |-> "key", src |-> "pbkdf2", bytes |-> textEncEncode(passphrase),
     salt |-> b64uToBuf(saltB64u), iterations |-> iterations,
     extractable |-> FALSE]

KeyMaterial(k) ==
    [src |-> k.src, bytes |-> k.bytes, salt |-> k.salt, iterations |-> k.iterations]

\* the flag of the importKey calls that make _dek (vault.js:140, 183, 201)
DekExtractable == FALSE

\* crypto.subtle.exportKey('raw', key): rejected for no key and for a key
\* that is not extractable
ExportError == << 0 - 3 >>
exportKeyRaw(k) ==
    IF k = NoKey THEN ExportError
    ELSE IF ~k.extractable THEN ExportError
    ELSE k.bytes

(***************************************************************************)
(* AES-GCM as an ideal authenticated cipher.  The table gcm lists every    *)
(* encryption made so far; the ciphertext of entry n (plaintext length     *)
(* plus the tag) stands for the bytes the cipher produced, and decryption  *)
(* succeeds exactly for the key, IV, associated data and ciphertext of an  *)
(* entry of the table.                                                     *)
(***************************************************************************)
OperationError == << 0 - 2 >>

GcmCiphertext(n, ptLen) ==
    [i \in 1..(ptLen + TagBytes) |-> IF i = 1 THEN n ELSE (n * 7 + i * 13) % 256]

GcmEntry(key, iv, aad, pt) ==
    [key |-> KeyMaterial(key), iv |-> iv, aad |-> aad, pt |-> pt]

GcmMatches(table, key, iv, aad, ct) ==
    { n \in 1..Len(table) :
        /\ table[n].key = KeyMaterial(key)
        /\ table[n].iv = iv
        /\ table[n].aad = aad
        /\ GcmCiphertext(n, Len(table[n].pt)) = ct }

PlaintextOf(table, matches) ==
    IF matches = {} THEN OperationError
    ELSE table[CHOOSE n \in matches : TRUE].pt

\* crypto.subtle.decrypt({name:'AES-GCM', iv, additionalData}, key, ct)
gcmDecrypt(table, key, iv, aad, ct) ==
    IF iv = DecodeError \/ ct = DecodeError THEN DecodeError
    ELSE PlaintextOf(table, GcmMatches(table, key, iv, aad, ct))

\* what unwrapDEKFromHeader throws for a kind it does not know
UnknownKindError == << 0 - 4 >>

IsError(b) == b \in {DecodeError, OperationError, ExportError, UnknownKindError}

\* aesGcmEncrypt: a fresh 12-byte IV (draw ivSeed), the encryption is added
\* to the table and its IV and ciphertext are returned as base64url texts
aesGcmEncrypt(table, key, plaintextBuf, aadStr, ivSeed) ==
    LET iv == randBytes(ivSeed, IvBytes)
        n == Len(table) + 1
    IN  [table |-> Append(table, GcmEntry(key, iv, textEncEncode(aadStr), plaintextBuf)),
         out |-> [ivB64 |-> b64u(iv),
                  ctB64 |-> b64u(GcmCiphertext(n, Len(plaintextBuf)))]]

aesGcmDecrypt(table, key, ivB64, ctB64, aadStr) ==
    gcmDecrypt(table, key, b64uToBuf(ivB64), textEncEncode(aadStr), b64uToBuf(ctB64))

\* wrapDEKBytes with a slip: the text stored as the ciphertext is the
\* encoding of the DEK bytes themselves
wrapDEKBytesPlain(table, kek, dekBytes, aad, ivSeed) ==
    [table |-> aesGcmEncrypt(table, kek, dekBytes, aad, ivSeed).table,
     out |-> [ivB64 |-> aesGcmEncrypt(table, kek, dekBytes, aad, ivSeed).out.ivB64,
              ctB64 |-> b64u(dekBytes)]]
wrapDEKBytes(table, kek, dekBytes, aad, ivSeed) ==
    aesGcmEncrypt(table, kek, dekBytes, aad, ivSeed)

unwrapDEKBytes(table, kek, wrap, aad) ==
    aesGcmDecrypt(table, kek, wrap.ivB64, wrap.ctB64, aad)

(***************************************************************************)
(* State.                                                                  *)
(***************************************************************************)
VARIABLES
    store,          \* localStorage['cp:vault:meta:v1'] as loadVaultMeta parses it
    _dek,           \* the cached DEK, NoKey when locked
    _idleMin,       \* minutes of the idle auto-lock
    _idleTimer,     \* id returned by the last setTimeout, 0 before the first
    _activityBound, \* the activity listeners are bound
    timers,         \* the pending timeouts of the event loop
    calls,          \* the asynchronous calls suspended at an await
    rnd,            \* number of random draws made
    gcm,            \* the table of AES-GCM encryptions
    res,            \* outcome of the call that completed last
    user,           \* what the caller holds: passphrase and recovery codes
    vaultData,      \* what the storage layer keeps: encrypted entries and backups
    fired,          \* the idle timer that expired last
    setupDek,       \* the DEK that the last enableVaultFirstTime generated
    budget,         \* calls of each kind that may still be made
    db              \* the rows of the IndexedDB database

vars == << store, _dek, _idleMin, _idleTimer, _activityBound, timers, calls,
           rnd, gcm, res, user, vaultData, fired, setupDek, budget, db >>

sessionVars == << _dek, _idleMin, _idleTimer, _activityBound, timers >>

(***************************************************************************)
(* Vault metadata (vault.js:95-109).  JSON.stringify and JSON.parse keep   *)
(* an object of strings, integers and booleans as it is, so the stored     *)
(* item is held as the object.                                             *)
(***************************************************************************)
NoMeta == [present |-> FALSE, enabled |-> FALSE]

\* the item holds an object without a true enabled flag: '{}', which is what
\* saveVaultMeta writes for no metadata (JSON.stringify(meta || {}))
DisabledMeta == [present |-> TRUE, enabled |-> FALSE]

loadVaultMeta(st) == st

saveVaultMeta(meta) == meta

isVaultEnabled(st) == st.present /\ st.enabled

isUnlocked(dek) == dek # NoKey

(***************************************************************************)
(* Timers.  setTimeout takes its delay as a 32-bit signed integer: the     *)
(* product _idleMin * 60 * 1000 is reduced modulo 2^32 and a negative      *)
(* delay counts as 0.  The product is computed in 16-bit halves.  _idleMin  *)
(* holds a number of JavaScript: a positive integer, or one of the two     *)
(* values that are not integers and that Math.max(1, x) can return, NaN    *)
(* and Infinity, which are written as the numbers below; the product of    *)
(* either is itself and is converted to the delay 0.                       *)
(***************************************************************************)
NotANumber == 0 - 1
PosInfinity == 0 - 2

TimeoutDelay(min) ==
    IF min \in {NotANumber, PosInfinity} THEN 0
    ELSE LET x == min * 234                 \* 60000 = 234 * 256 + 96
             lo0 == (x % 256) * 256 + min * 96
             hi == (x \div 256 + lo0 \div 65536) % 65536
             lo == lo0 % 65536
         IN  IF hi >= 32768 THEN 0 ELSE hi * 65536 + lo

TimerIds(ts) == { t.id : t \in ts }

\* the id setTimeout returns: one that names no pending timer and is not
\* the id the vault still holds
NewTimerId(ts, held) ==
    CHOOSE i \in 1..(Cardinality(ts) + 2) :
        /\ i \notin TimerIds(ts) \cup {held}
        /\ \A j \in 1..(i - 1) : j \in TimerIds(ts) \cup {held}

clearTimeout(ts, id) == { t \in ts : t.id # id }

\* setTimeout(lockNow, min * 60 * 1000)
setTimeout(ts, id, min) ==
    ts \cup {[id |-> id, left |-> TimeoutDelay(min), min |-> min, age |-> 0]}

\* resetIdleTimer with a slip: the timer held is not cleared before the new
\* one is set
resetIdleTimerNoClear(dek, ts, held, min) ==
    IF dek = NoKey THEN [timers |-> ts, idleTimer |-> held]
    ELSE LET id == NewTimerId(ts, held)
         IN  [timers |-> setTimeout(ts, id, min), idleTimer |-> id]
\* resetIdleTimer (vault.js:120-124): the timers and _idleTimer afterwards
resetIdleTimer(dek, ts, held, min) ==
    IF dek = NoKey THEN [timers |-> ts, idleTimer |-> held]
    ELSE LET id == NewTimerId(clearTimeout(ts, held), held)
         IN  [timers |-> setTimeout(clearTimeout(ts, held), id, min),
              idleTimer |-> id]

(***************************************************************************)
(* Error messages.                                                         *)
(***************************************************************************)
ErrWeakPass == "Passphrase must be at least 8 characters."
ErrWeakNewPass == "New passphrase must be at least 8 characters."
ErrNotEnabled == "Vault not enabled."
ErrWrongPass == "Wrong passphrase."
ErrWrongCode == "Wrong Recovery Code."
ErrUnlockFirst == "Unlock the vault first."
ErrLocked == "Vault is locked."
ErrUnknownKind == "Unknown unwrap kind."
\* rejections of crypto.subtle and exceptions of atob
ErrTypeError == "TypeError"
ErrInvalidAccess == "InvalidAccessError"
ErrOperation == "OperationError"
ErrInvalidCharacter == "InvalidCharacterError"

\* IsWeak with a slip: only the empty passphrase is refused
IsWeakEmptyOnly(passphrase) == Len(passphrase) = 0
\* !passphrase || passphrase.length < 8
IsWeak(passphrase) == Len(passphrase) = 0 \/ Len(passphrase) < MinPassLen

(***************************************************************************)
(* Records of the model: a suspended call, the outcome of a call.          *)
(***************************************************************************)
NoWrap == [ivB64 |-> << >>, ctB64 |-> << >>]

\* what a decryption or an import was asked for: the stored item and what
\* was presented (mode and commits: the mode of an import, and whether the
\* database committed its transaction; x: the argument of setIdleMinutes)
NoReq == [item |-> 0, table |-> << >>, entryId |-> << >>, version |-> 0,
          plain |-> << >>, ivB64 |-> << >>, ctB64 |-> << >>, key |-> "none",
          mode |-> "", commits |-> TRUE,
          x |-> [t |-> "undefined", n |-> 0, d |-> 1, s |-> << >>]]

Call(id, op, pc, secret, newSecret, meta, seed, locked) ==
    [id |-> id, op |-> op, pc |-> pc, secret |-> secret, newSecret |-> newSecret,
     meta |-> meta, seed |-> seed, wasLocked |-> locked]

\* the outcome of a call: err is "" when it returned; val is the string it
\* returned (a recovery code, a plaintext); out is the {ivB64, ctB64} it
\* returned; the other fields record the call: its number among the calls
\* that ended, the call that ended before it, its arguments, and whether
\* the vault was locked when it was made
NoBefore == [op |-> "none", err |-> ""]

OutcomeAt(n, before, op, err, val, out, secret, newSecret, locked) ==
    [n |-> n, before |-> before, op |-> op, err |-> err, val |-> val, out |-> out,
     secret |-> secret, newSecret |-> newSecret, wasLocked |-> locked,
     req |-> NoReq]

Outcome(op, err, val, out, secret, newSecret, locked) ==
    OutcomeAt(res.n + 1, [op |-> res.op, err |-> res.err], op, err, val, out,
              secret, newSecret, locked)

OutcomeOf(c, err, val) ==
    Outcome(c.op, err, val, NoWrap, c.secret, c.newSecret, c.wasLocked)

\* a number for a new call that no suspended call has
NextCallId ==
    CHOOSE i \in 1..(Cardinality(calls) + 1) :
        /\ \A c \in calls : c.id # i
        /\ \A j \in 1..(i - 1) : \E c \in calls : c.id = j

\* a call may be made: the caller has calls left, and as many calls are
\* suspended as it lets overlap
CanStart == budget.ops > 0 /\ Cardinality(calls) < budget.inflight

Spend == [budget EXCEPT !.ops = @ - 1]

\* the random draws of a call are numbered by its kind and by how many calls
\* of that kind were made before it
EnableSeed(n) == 1 + 6 * n
ChangeSeed(n) == 101 + 2 * n
RegenSeed(n) == 151 + 3 * n
DataSeed(n) == 201 + n

(***************************************************************************)
(* enableVaultFirstTime (vault.js:131-170), after its awaits: the keys,    *)
(* the recovery code, the two wraps and the metadata.  The call made its   *)
(* six random draws from seed on.                                          *)
(***************************************************************************)
\* WrapTwice with a slip: the recovery wrap holds 32 fresh bytes, not the DEK
WrapTwiceFreshDek(table, kek, recKek, dekBytes, ivSeed) ==
    LET passWrap == wrapDEKBytes(table, kek, dekBytes, DekAad, ivSeed)
        recWrap == wrapDEKBytes(passWrap.table, recKek,
                                randBytes(ivSeed + 2, DekBytes), DekAad, ivSeed + 1)
    IN  [pass |-> passWrap.out, recovery |-> recWrap.out, table |-> recWrap.table]

\* lines 150-151: the DEK wrapped under the passphrase KEK (IV draw ivSeed)
\* and under the recovery KEK (IV draw ivSeed + 1)
WrapTwice(table, kek, recKek, dekBytes, ivSeed) ==
    LET passWrap == wrapDEKBytes(table, kek, dekBytes, DekAad, ivSeed)
        recWrap == wrapDEKBytes(passWrap.table, recKek, dekBytes, DekAad, ivSeed + 1)
    IN  [pass |-> passWrap.out, recovery |-> recWrap.out, table |-> recWrap.table]

enableVaultFirstTime(table, passphrase, seed, idleMin) ==
    LET salt == b64u(randBytes(seed, SaltBytes))
        iterations == DefaultIterations
        kek == deriveKEK(passphrase, salt, iterations)
        dekBytes == randBytes(seed + 1, DekBytes)
        dekKey == importKeyRaw(dekBytes, DekExtractable)
        recoveryCode == generateRecoveryCode(seed + 2)
        recSalt == b64u(randBytes(seed + 3, SaltBytes))
        recIters == DefaultIterations
        recKek == deriveKEK(recoveryCode, recSalt, recIters)
        wraps == WrapTwice(table, kek, recKek, dekBytes, seed + 4)
    IN  [meta |-> [present |-> TRUE,
                   enabled |-> TRUE,
                   createdAt |-> seed,
                   kdf |-> [algo |-> "PBKDF2", hash |-> "SHA-256",
                            iterations |-> iterations, salt |-> salt],
                   recovery |-> [iterations |-> recIters, salt |-> recSalt],
                   wraps |-> [pass |-> wraps.pass, recovery |-> wraps.recovery],
                   cipher |-> [algo |-> "AES-GCM", ivBytes |-> IvBytes, keyBits |-> 256],
                   idleMinutes |-> idleMin],
         table |-> wraps.table,
         dekKey |-> dekKey,
         recoveryCode |-> recoveryCode]

(***************************************************************************)
(* unlockWithPassphrase (vault.js:172-187) and unlockWithRecoveryCode      *)
(* (vault.js:189-205), after the metadata was loaded: the error thrown or  *)
(* the session state set.                                                  *)
(***************************************************************************)
\* UnlockOutcome with a slip: the catch block locks the vault before it
\* throws
UnlockOutcomeLockOnFailure(dekBytes, wrongSecret, dek, ts, held, min, bound) ==
    IF IsError(dekBytes)
        THEN [err |-> wrongSecret, dek |-> NoKey, timers |-> clearTimeout(ts, held),
              idleTimer |-> held, bound |-> bound]
        ELSE [err |-> "",
              dek |-> importKeyRaw(dekBytes, DekExtractable),
              timers |-> resetIdleTimer(importKeyRaw(dekBytes, DekExtractable),
                                        ts, held, min).timers,
              idleTimer |-> resetIdleTimer(importKeyRaw(dekBytes, DekExtractable),
                                           ts, held, min).idleTimer,
              bound |-> TRUE]

\* UnlockOutcome with a slip: the key is imported and cached before the
\* unwrap is known to have succeeded
UnlockOutcomeCacheOnFailure(dekBytes, wrongSecret, dek, ts, held, min, bound) ==
    IF IsError(dekBytes)
        THEN [err |-> wrongSecret, dek |-> importKeyRaw(<< >>, DekExtractable),
              timers |-> ts, idleTimer |-> held, bound |-> bound]
        ELSE [err |-> "",
              dek |-> importKeyRaw(dekBytes, DekExtractable),
              timers |-> resetIdleTimer(importKeyRaw(dekBytes, DekExtractable),
                                        ts, held, min).timers,
              idleTimer |-> resetIdleTimer(importKeyRaw(dekBytes, DekExtractable),
                                           ts, held, min).idleTimer,
              bound |-> TRUE]
\* the end of both unlock functions: the catch block throws and nothing is
\* set; otherwise the imported key is cached, the listeners are bound and
\* the idle timer is started
UnlockOutcome(dekBytes, wrongSecret, dek, ts, held, min, bound) ==
    IF IsError(dekBytes)
        THEN [err |-> wrongSecret, dek |-> dek, timers |-> ts,
              idleTimer |-> held, bound |-> bound]
        ELSE [err |-> "",
              dek |-> importKeyRaw(dekBytes, DekExtractable),
              timers |-> resetIdleTimer(importKeyRaw(dekBytes, DekExtractable),
                                        ts, held, min).timers,
              idleTimer |-> resetIdleTimer(importKeyRaw(dekBytes, DekExtractable),
                                           ts, held, min).idleTimer,
              bound |-> TRUE]

unlockWithPassphrase(table, meta, passphrase, dek, ts, held, min, bound) ==
    UnlockOutcome(
        unwrapDEKBytes(table,
                       deriveKEK(passphrase, meta.kdf.salt, meta.kdf.iterations),
                       meta.wraps.pass, DekAad),
        ErrWrongPass, dek, ts, held, min, bound)

\* unlockWithRecoveryCode with a slip: the KEK is derived with the salt of
\* the passphrase
unlockWithRecoveryCodeKdfSalt(table, meta, code, dek, ts, held, min, bound) ==
    UnlockOutcome(
        unwrapDEKBytes(table,
                       deriveKEK(code, meta.kdf.salt, meta.recovery.iterations),
                       meta.wraps.recovery, DekAad),
        ErrWrongCode, dek, ts, held, min, bound)

unlockWithRecoveryCode(table, meta, code, dek, ts, held, min, bound) ==
    UnlockOutcome(
        unwrapDEKBytes(table,
                       deriveKEK(code, meta.recovery.salt, meta.recovery.iterations),
                       meta.wraps.recovery, DekAad),
        ErrWrongCode, dek, ts, held, min, bound)

\* lockNow with a slip: the cached DEK is cleared and the timer is left
lockNowKeepTimer(ts, held) == [dek |-> NoKey, timers |-> ts]
\* lockNow (vault.js:207-210): _dek = null; clearTimeout(_idleTimer)
lockNow(ts, held) == [dek |-> NoKey, timers |-> clearTimeout(ts, held)]

\* the error of exportKey('raw', _dek)
ExportErrorName(k) == IF k = NoKey THEN ErrTypeError ELSE ErrInvalidAccess

(***************************************************************************)
(* changePassphrase (vault.js:213-235) from line 219 on: the new salt is   *)
(* draw seed, the IV of the wrap is draw ivSeed, meta is the metadata      *)
(* loaded at line 216.                                                     *)
(***************************************************************************)
\* changePassphrase with a slip: the new KEK always takes the default
\* iteration count
changePassphraseDefaultIterations(table, meta, newPass, dek, seed, ivSeed) ==
    LET newIterations == DefaultIterations
        newSalt == b64u(randBytes(seed, SaltBytes))
        kek == deriveKEK(newPass, newSalt, newIterations)
        raw == exportKeyRaw(dek)
        passWrap == wrapDEKBytes(table, kek, raw, DekAad, ivSeed)
    IN  IF IsError(raw)
            THEN [err |-> ExportErrorName(dek), meta |-> meta, table |-> table]
            ELSE [err |-> "",
                  meta |-> [meta EXCEPT
                              !.kdf = [algo |-> "PBKDF2", hash |-> "SHA-256",
                                       iterations |-> newIterations, salt |-> newSalt],
                              !.wraps = [@ EXCEPT !.pass = passWrap.out]],
                  table |-> passWrap.table]
changePassphrase(table, meta, newPass, dek, seed, ivSeed) ==
    LET newIterations == Max(DefaultIterations, meta.kdf.iterations)
        newSalt == b64u(randBytes(seed, SaltBytes))
        kek == deriveKEK(newPass, newSalt, newIterations)
        raw == exportKeyRaw(dek)
        passWrap == wrapDEKBytes(table, kek, raw, DekAad, ivSeed)
    IN  IF IsError(raw)
            THEN [err |-> ExportErrorName(dek), meta |-> meta, table |-> table]
            ELSE [err |-> "",
                  meta |-> [meta EXCEPT
                              !.kdf = [algo |-> "PBKDF2", hash |-> "SHA-256",
                                       iterations |-> newIterations, salt |-> newSalt],
                              !.wraps = [@ EXCEPT !.pass = passWrap.out]],
                  table |-> passWrap.table]

(***************************************************************************)
(* regenerateRecoveryCode (vault.js:238-253) from line 241 on: the code is *)
(* draw seed, the salt draw seed + 1, the IV of the wrap draw ivSeed.      *)
(***************************************************************************)
regenerateRecoveryCode(table, meta, dek, seed, ivSeed) ==
    LET recoveryCode == generateRecoveryCode(seed)
        recSalt == b64u(randBytes(seed + 1, SaltBytes))
        recIters == Max(DefaultIterations, meta.recovery.iterations)
        recKek == deriveKEK(recoveryCode, recSalt, recIters)
        raw == exportKeyRaw(dek)
        recWrap == wrapDEKBytes(table, recKek, raw, DekAad, ivSeed)
    IN  IF IsError(raw)
            THEN [err |-> ExportErrorName(dek), meta |-> meta, table |-> table,
                  recoveryCode |-> << >>]
            ELSE [err |-> "",
                  meta |-> [meta EXCEPT
                              !.recovery = [iterations |-> recIters, salt |-> recSalt],
                              !.wraps = [@ EXCEPT !.recovery = recWrap.out]],
                  table |-> recWrap.table,
                  recoveryCode |-> recoveryCode]

(***************************************************************************)
(* Inputs of the calls.                                                    *)
(***************************************************************************)
PassEmpty == << >>                                          \* ""
PassShort == << 115, 104, 111, 114, 116 >>                  \* "short"
PassA == << 112, 97, 115, 115, 119, 48, 114, 100 >>         \* "passw0rd"
PassB == << 110, 101, 119, 45, 112, 97, 115, 115, 49 >>     \* "new-pass1"
WrongCode == << 48, 48, 48, 48, 45, 48, 48, 48, 48 >>       \* "0000-0000"

CodeInputs == ({user.code, user.oldCode} \ {<< >>}) \cup {WrongCode}

(***************************************************************************)
(* enableVaultFirstTime.                                                   *)
(***************************************************************************)
EnableStart(p) ==
    /\ CanStart
    /\ budget' = Spend
    /\ IF IsWeak(p)
         THEN /\ res' = Outcome("enableVaultFirstTime", ErrWeakPass, << >>, NoWrap,
                                p, << >>, _dek = NoKey)
              /\ UNCHANGED << calls, rnd >>
         ELSE /\ calls' = calls \cup
                    {Call(NextCallId, "enableVaultFirstTime", "await", p, << >>,
                          NoMeta, EnableSeed(rnd.enable), _dek = NoKey)}
              /\ rnd' = [rnd EXCEPT !.enable = @ + 1]
              /\ UNCHANGED res
    /\ UNCHANGED << store, sessionVars, gcm, user, vaultData, db, fired, setupDek >>

EnableDone(c) ==
    /\ c \in calls
    /\ c.op = "enableVaultFirstTime"
    /\ \E e \in {enableVaultFirstTime(gcm, c.secret, c.seed, _idleMin)} :
       \E t \in {resetIdleTimer(e.dekKey, timers, _idleTimer, _idleMin)} :
           /\ store' = saveVaultMeta(e.meta)
           /\ gcm' = e.table
           /\ _dek' = e.dekKey
           /\ _activityBound' = TRUE
           /\ timers' = t.timers
           /\ _idleTimer' = t.idleTimer
           /\ res' = OutcomeOf(c, "", e.recoveryCode)
           /\ user' = [pass |-> c.secret, code |-> e.recoveryCode,
                       oldPass |-> user.pass, oldCode |-> user.code]
           /\ setupDek' = KeyMaterial(e.dekKey)
    /\ calls' = calls \ {c}
    /\ UNCHANGED << _idleMin, rnd, vaultData, db, fired, budget >>

(***************************************************************************)
(* unlockWithPassphrase / unlockWithRecoveryCode.                          *)
(***************************************************************************)
\* UnlockStart with a slip: only a missing item is refused (!meta)
UnlockStartPresentOnly(op, secret) ==
    /\ CanStart
    /\ budget' = Spend
    /\ LET meta == loadVaultMeta(store)
       IN  IF ~meta.present
             THEN /\ res' = Outcome(op, ErrNotEnabled, << >>, NoWrap, secret, << >>,
                                    _dek = NoKey)
                  /\ UNCHANGED calls
             ELSE /\ calls' = calls \cup
                        {Call(NextCallId, op, "await", secret, << >>, meta, 0,
                              _dek = NoKey)}
                  /\ UNCHANGED res
    /\ UNCHANGED << store, sessionVars, rnd, gcm, user, vaultData, db, fired, setupDek >>
UnlockStart(op, secret) ==
    /\ CanStart
    /\ budget' = Spend
    /\ LET meta == loadVaultMeta(store)
       IN  IF ~meta.enabled
             THEN /\ res' = Outcome(op, ErrNotEnabled, << >>, NoWrap, secret, << >>,
                                    _dek = NoKey)
                  /\ UNCHANGED calls
             ELSE /\ calls' = calls \cup
                        {Call(NextCallId, op, "await", secret, << >>, meta, 0,
                              _dek = NoKey)}
                  /\ UNCHANGED res
    /\ UNCHANGED << store, sessionVars, rnd, gcm, user, vaultData, db, fired, setupDek >>

UnlockPassStart(p) == UnlockStart("unlockWithPassphrase", p)

UnlockCodeStart(code) == UnlockStart("unlockWithRecoveryCode", code)

UnlockFinish(c, u) ==
    /\ _dek' = u.dek
    /\ timers' = u.timers
    /\ _idleTimer' = u.idleTimer
    /\ _activityBound' = u.bound
    /\ res' = OutcomeOf(c, u.err, << >>)
    /\ calls' = calls \ {c}
    /\ UNCHANGED << store, _idleMin, rnd, gcm, user, vaultData, db, fired, setupDek, budget >>

UnlockPassDone(c) ==
    /\ c \in calls
    /\ c.op = "unlockWithPassphrase"
    /\ \E u \in {unlockWithPassphrase(gcm, c.meta, c.secret, _dek, timers,
                                     _idleTimer, _idleMin, _activityBound)} :
          UnlockFinish(c, u)

UnlockCodeDone(c) ==
    /\ c \in calls
    /\ c.op = "unlockWithRecoveryCode"
    /\ \E u \in {unlockWithRecoveryCode(gcm, c.meta, c.secret, _dek, timers,
                                       _idleTimer, _idleMin, _activityBound)} :
          UnlockFinish(c, u)

(***************************************************************************)
(* lockNow, the activity listeners, setIdleMinutes, the timer.             *)
(***************************************************************************)
\* LockNow with a slip: lockNow also marks the stored vault as not enabled
LockNowDisables ==
    /\ budget.ops > 0
    /\ budget' = Spend
    /\ _dek' = lockNow(timers, _idleTimer).dek
    /\ timers' = lockNow(timers, _idleTimer).timers
    /\ store' = [store EXCEPT !.enabled = FALSE]
    /\ res' = Outcome("lockNow", "", << >>, NoWrap, << >>, << >>, _dek = NoKey)
    /\ UNCHANGED << _idleMin, _idleTimer, _activityBound, calls, rnd, gcm,
                    user, vaultData, db, fired, setupDek >>
LockNow ==
    /\ budget.ops > 0
    /\ budget' = Spend
    /\ _dek' = lockNow(timers, _idleTimer).dek
    /\ timers' = lockNow(timers, _idleTimer).timers
    /\ res' = Outcome("lockNow", "", << >>, NoWrap, << >>, << >>, _dek = NoKey)
    /\ UNCHANGED << store, _idleMin, _idleTimer, _activityBound, calls, rnd, gcm,
                    user, vaultData, db, fired, setupDek >>

\* a mousemove, keydown, touchstart or visibilitychange event: bump()
Activity ==
    /\ budget.activity > 0
    /\ _activityBound
    /\ budget' = [budget EXCEPT !.activity = @ - 1]
    /\ \E t \in {resetIdleTimer(_dek, timers, _idleTimer, _idleMin)} :
          /\ timers' = t.timers
          /\ _idleTimer' = t.idleTimer
    /\ UNCHANGED << store, _dek, _idleMin, _activityBound, calls, rnd, gcm, res,
                    user, vaultData, db, fired, setupDek >>

\* the pending timer is due: the event loop runs its callback, lockNow
TimerFires(t) ==
    /\ t \in timers
    /\ t.left = 0
    /\ _dek' = lockNow(timers \ {t}, _idleTimer).dek
    /\ timers' = lockNow(timers \ {t}, _idleTimer).timers
    /\ fired' = [any |-> TRUE, min |-> t.min, age |-> t.age,
                 unlocked |-> isUnlocked(_dek)]
    /\ UNCHANGED << store, _idleMin, _idleTimer, _activityBound, calls, rnd, gcm,
                    res, user, vaultData, db, setupDek, budget >>

\* d milliseconds pass, no more than until the next pending timer is due
TimePasses(d) ==
    /\ timers # {}
    /\ d > 0
    /\ \A t \in timers : d <= t.left
    /\ timers' = { [t EXCEPT !.left = @ - d, !.age = @ + d] : t \in timers }
    /\ UNCHANGED << store, _dek, _idleMin, _idleTimer, _activityBound, calls, rnd,
                    gcm, res, user, vaultData, db, fired, setupDek, budget >>

\* the values of JavaScript given to setIdleMinutes: a finite number n / d
\* (d > 0), NaN, the infinities, null, undefined, or a string
JsValue(t, n, d, s) == [t |-> t, n |-> n, d |-> d, s |-> s]
JsNumber(n, d) == JsValue("number", n, d, << >>)
JsInt(n) == JsNumber(n, 1)
JsNaN == JsValue("NaN", 0, 1, << >>)
JsInfinity == JsValue("Infinity", 0, 1, << >>)
JsNegInfinity == JsValue("-Infinity", 0, 1, << >>)
JsNull == JsValue("null", 0, 1, << >>)
JsUndefined == JsValue("undefined", 0, 1, << >>)
JsString(s) == JsValue("string", 0, 1, s)

\* x || y takes y for these values of x
IsFalsy(x) ==
    \/ x.t \in {"NaN", "null", "undefined"}
    \/ x.t = "number" /\ x.n = 0
    \/ x.t = "string" /\ x.s = << >>

RECURSIVE DecimalValue(_)
DecimalValue(s) ==
    IF Len(s) = 0 THEN 0
    ELSE 10 * DecimalValue(SubSeq(s, 1, Len(s) - 1)) + (s[Len(s)] - 48)

\* the number a string converts to: the empty string is 0, a string of
\* decimal digits is its value, and the other strings of the model, which
\* hold a character that no numeric literal has, are NaN
StringToNumber(s) ==
    IF \A i \in 1..Len(s) : s[i] \in 48..57 THEN JsInt(DecimalValue(s))
    ELSE JsNaN

ToNumber(x) ==
    IF x.t = "string" THEN StringToNumber(x.s)
    ELSE IF x.t = "null" THEN JsInt(0)
    ELSE IF x.t = "undefined" THEN JsNaN
    ELSE x

\* Math.floor(x): the largest integer that is not above a finite number
MathFloor(x) ==
    IF ToNumber(x).t = "number"
        THEN JsInt(ToNumber(x).n \div ToNumber(x).d)
        ELSE ToNumber(x)

\* Math.max(1, v) for an integer, an infinity or NaN
MathMaxOne(v) ==
    IF v.t = "NaN" THEN JsNaN
    ELSE IF v.t = "Infinity" THEN JsInfinity
    ELSE IF v.t = "-Infinity" THEN JsInt(1)
    ELSE JsInt(Max(1, v.n))

\* the number as _idleMin holds it
StoredNumber(v) ==
    IF v.t = "NaN" THEN NotANumber
    ELSE IF v.t = "Infinity" THEN PosInfinity
    ELSE v.n

\* Math.max(1, Math.floor(min || 15))
FallbackIdleMin == 15
NormalizeIdleMinutes(min) ==
    StoredNumber(MathMaxOne(MathFloor(IF IsFalsy(min) THEN JsInt(FallbackIdleMin)
                                      ELSE min)))

\* setIdleMinutes (vault.js:125-128)
SetIdleMinutes(min) ==
    /\ budget.ops > 0
    /\ budget' = Spend
    /\ _idleMin' = NormalizeIdleMinutes(min)
    /\ \E t \in {resetIdleTimer(_dek, timers, _idleTimer,
                                  NormalizeIdleMinutes(min))} :
          /\ timers' = t.timers
          /\ _idleTimer' = t.idleTimer
    /\ res' = [Outcome("setIdleMinutes", "", << >>, NoWrap, << >>, << >>,
                       _dek = NoKey)
                  EXCEPT !.req = [NoReq EXCEPT !.x = min]]
    /\ UNCHANGED << store, _dek, _activityBound, calls, rnd, gcm, user, vaultData, db,
                    fired, setupDek >>

(***************************************************************************)
(* changePassphrase: the call, the return of its inner                     *)
(* unlockWithPassphrase with lines 215-221, and lines 224-234.             *)
(***************************************************************************)
ChangeStart(oldPass, newPass) ==
    /\ CanStart
    /\ budget' = Spend
    /\ LET meta == loadVaultMeta(store)
       IN  IF ~meta.enabled
             THEN /\ res' = Outcome("changePassphrase", ErrNotEnabled, << >>, NoWrap,
                                    oldPass, newPass, _dek = NoKey)
                  /\ UNCHANGED calls
             ELSE /\ calls' = calls \cup
                        {Call(NextCallId, "changePassphrase", "unlock", oldPass,
                              newPass, meta, 0, _dek = NoKey)}
                  /\ UNCHANGED res
    /\ UNCHANGED << store, sessionVars, rnd, gcm, user, vaultData, db, fired, setupDek >>

ChangeUnlocked(c) ==
    /\ c \in calls
    /\ c.op = "changePassphrase"
    /\ c.pc = "unlock"
    /\ \E u \in {unlockWithPassphrase(gcm, c.meta, c.secret, _dek, timers,
                                     _idleTimer, _idleMin, _activityBound)} :
           /\ _dek' = u.dek
           /\ timers' = u.timers
           /\ _idleTimer' = u.idleTimer
           /\ _activityBound' = u.bound
           /\ IF u.err # ""
                THEN /\ res' = OutcomeOf(c, u.err, << >>)
                     /\ calls' = calls \ {c}
                     /\ UNCHANGED rnd
                ELSE IF IsWeak(c.newSecret)
                THEN /\ res' = OutcomeOf(c, ErrWeakNewPass, << >>)
                     /\ calls' = calls \ {c}
                     /\ UNCHANGED rnd
                ELSE /\ calls' = (calls \ {c}) \cup
                           {[c EXCEPT !.pc = "derive", !.meta = loadVaultMeta(store),
                                      !.seed = ChangeSeed(rnd.change)]}
                     /\ rnd' = [rnd EXCEPT !.change = @ + 1]
                     /\ UNCHANGED res
    /\ UNCHANGED << store, _idleMin, gcm, user, vaultData, db, fired, setupDek, budget >>

ChangeDone(c) ==
    /\ c \in calls
    /\ c.op = "changePassphrase"
    /\ c.pc = "derive"
    /\ \E r \in {changePassphrase(gcm, c.meta, c.newSecret, _dek, c.seed,
                                   c.seed + 1)} :
           /\ res' = OutcomeOf(c, r.err, << >>)
           /\ IF r.err # ""
                THEN UNCHANGED << store, gcm, user >>
                ELSE /\ store' = saveVaultMeta(r.meta)
                     /\ gcm' = r.table
                     /\ user' = [user EXCEPT !.pass = c.newSecret, !.oldPass = user.pass]
    /\ calls' = calls \ {c}
    /\ UNCHANGED << sessionVars, rnd, vaultData, db, fired, setupDek, budget >>

(***************************************************************************)
(* regenerateRecoveryCode: lines 239-244, then lines 246-252.              *)
(***************************************************************************)
RegenStart ==
    /\ CanStart
    /\ budget' = Spend
    /\ IF _dek = NoKey
         THEN /\ res' = Outcome("regenerateRecoveryCode", ErrUnlockFirst, << >>,
                                NoWrap, << >>, << >>, TRUE)
              /\ UNCHANGED << calls, rnd >>
         ELSE /\ calls' = calls \cup
                    {Call(NextCallId, "regenerateRecoveryCode", "derive", << >>,
                          << >>, loadVaultMeta(store), RegenSeed(rnd.regen), FALSE)}
              /\ rnd' = [rnd EXCEPT !.regen = @ + 1]
              /\ UNCHANGED res
    /\ UNCHANGED << store, sessionVars, gcm, user, vaultData, db, fired, setupDek >>

RegenDone(c) ==
    /\ c \in calls
    /\ c.op = "regenerateRecoveryCode"
    /\ \E r \in {regenerateRecoveryCode(gcm, c.meta, _dek, c.seed, c.seed + 2)} :
           /\ res' = OutcomeOf(c, r.err, r.recoveryCode)
           /\ IF r.err # ""
                THEN UNCHANGED << store, gcm, user >>
                ELSE /\ store' = saveVaultMeta(r.meta)
                     /\ gcm' = r.table
                     /\ user' = [user EXCEPT !.code = r.recoveryCode,
                                             !.oldCode = user.code]
    /\ calls' = calls \ {c}
    /\ UNCHANGED << sessionVars, rnd, vaultData, db, fired, setupDek, budget >>

(***************************************************************************)
(* Entry encryption (vault.js:256-276).                                    *)
(***************************************************************************)
\* `${table}:${entryId}:${version}`
EntryAad(table, entryId, version) ==
    table \o << 58 >> \o entryId \o << 58 >> \o NumberToString(version)

\* the name of the error a failed decryption of texts iv, ct raises
DecryptErrorName(pt) ==
    IF pt = DecodeError THEN ErrInvalidCharacter ELSE ErrOperation

\* what an encrypt function returns
EncryptOutcome(e) == [err |-> "", out |-> e.out, table |-> e.table]

encryptEntryBody(gcmTable, dek, table, entryId, version, body, ivSeed) ==
    IF dek = NoKey
        THEN [err |-> ErrLocked, out |-> NoWrap, table |-> gcmTable]
        ELSE EncryptOutcome(aesGcmEncrypt(gcmTable, dek, textEncEncode(body),
                                          EntryAad(table, entryId, version), ivSeed))

\* the end of both decrypt functions: the rejection of crypto.subtle.decrypt
\* (or the exception of atob), or textDec.decode(pt)
DecryptOutcome(pt) ==
    IF IsError(pt)
        THEN [err |-> DecryptErrorName(pt), val |-> << >>]
        ELSE [err |-> "", val |-> textDecDecode(pt)]

\* decryptEntryBody with a slip: a locked vault returns '' and does not throw
decryptEntryBodyEmptyWhenLocked(gcmTable, dek, table, entryId, version, ivB64, ctB64) ==
    IF dek = NoKey
        THEN [err |-> "", val |-> << >>]
        ELSE DecryptOutcome(aesGcmDecrypt(gcmTable, dek, ivB64, ctB64,
                                          EntryAad(table, entryId, version)))

decryptEntryBody(gcmTable, dek, table, entryId, version, ivB64, ctB64) ==
    IF dek = NoKey
        THEN [err |-> ErrLocked, val |-> << >>]
        ELSE DecryptOutcome(aesGcmDecrypt(gcmTable, dek, ivB64, ctB64,
                                          EntryAad(table, entryId, version)))

(***************************************************************************)
(* Backup encryption (vault.js:279-321).                                   *)
(***************************************************************************)
exportMetaForBackup(meta) ==
    [version |-> 1, type |-> "cp/encrypted-backup", kdf |-> meta.kdf,
     recovery |-> meta.recovery, wraps |-> meta.wraps, cipher |-> meta.cipher]

\* no additionalData: the associated data is empty
encryptBackupPayload(gcmTable, dek, plainUtf8, ivSeed) ==
    IF dek = NoKey
        THEN [err |-> ErrLocked, out |-> NoWrap, table |-> gcmTable]
        ELSE EncryptOutcome(aesGcmEncrypt(gcmTable, dek, textEncEncode(plainUtf8),
                                          << >>, ivSeed))

\* dekKey is the CryptoKey given, or the key imported from the bytes given
decryptBackupPayload(gcmTable, ivB64, ctB64, dekKey) ==
    IF dekKey = NoKey
        THEN [err |-> ErrTypeError, val |-> << >>]
        ELSE DecryptOutcome(gcmDecrypt(gcmTable, dekKey, b64uToBuf(ivB64), << >>,
                                       b64uToBuf(ctB64)))

\* unwrapDEKFromHeader with a slip: the recovery branch opens the
\* passphrase wrap
unwrapDEKFromHeaderPassWrap(gcmTable, header, kind, secret) ==
    IF kind = "passphrase"
        THEN unwrapDEKBytes(gcmTable,
                 deriveKEK(secret, header.kdf.salt, header.kdf.iterations),
                 header.wraps.pass, DekAad)
    ELSE IF kind = "recovery"
        THEN unwrapDEKBytes(gcmTable,
                 deriveKEK(secret, header.recovery.salt, header.recovery.iterations),
                 header.wraps.pass, DekAad)
    ELSE UnknownKindError
\* the DEK bytes, or the error of the unwrap
unwrapDEKFromHeader(gcmTable, header, kind, secret) ==
    IF kind = "passphrase"
        THEN unwrapDEKBytes(gcmTable,
                 deriveKEK(secret, header.kdf.salt, header.kdf.iterations),
                 header.wraps.pass, DekAad)
    ELSE IF kind = "recovery"
        THEN unwrapDEKBytes(gcmTable,
                 deriveKEK(secret, header.recovery.salt, header.recovery.iterations),
                 header.wraps.recovery, DekAad)
    ELSE UnknownKindError

(***************************************************************************)
(* The storage layer: it keeps what the encryption calls return and        *)
(* presents it again, as stored, under another identity, or altered.       *)
(***************************************************************************)
TableA == << 116 >>                     \* "t"
TableB == << 116, 58, 49 >>             \* "t:1"
IdA == << 50 >>                         \* "2"
IdB == << 49, 58, 50 >>                 \* "1:2"
BodyText == << 104, 105 >>              \* "hi"
BodyBom == << 65279, 104, 105 >>        \* U+FEFF "hi"
BodyLone == << 104, 55357 >>            \* "h" and a high surrogate on its own

BodyInputs == {<< >>, BodyText, BodyBom, BodyLone}

NoHeader == [version |-> 0, type |-> "none"]

\* a stored item: its number, the number of the call that wrote it, what
\* was encrypted and what the call returned
Item(n, kind, table, entryId, version, out, plain, dek, header) ==
    [n |-> n, at |-> res.n + 1, kind |-> kind, table |-> table, entryId |-> entryId,
     version |-> version, ivB64 |-> out.ivB64, ctB64 |-> out.ctB64,
     plain |-> plain, dek |-> KeyMaterial(dek), header |-> header]

Req(item, table, entryId, version, ivB64, ctB64, key) ==
    [item |-> item.n, table |-> table, entryId |-> entryId, version |-> version,
     plain |-> << >>, ivB64 |-> ivB64, ctB64 |-> ctB64, key |-> key,
     mode |-> "", commits |-> TRUE,
     x |-> [t |-> "undefined", n |-> 0, d |-> 1, s |-> << >>]]

ItemOf(n) == CHOOSE i \in vaultData : i.n = n

\* a stored text with one bit of its first or last character inverted, with
\* '-' and '_' written as '+' and '/', or with a '=' added at the end
Alterations(text) ==
    ({ [text EXCEPT ![p] = FlipBit(text[p], k)] : p \in {1, Len(text)}, k \in 0..7 }
     \cup {FromUrlAlphabet(text), Append(text, 61)}) \ {text}

EncryptEntry(table, entryId, version, body) ==
    /\ budget.writes > 0
    /\ budget' = [budget EXCEPT !.writes = @ - 1]
    /\ \E r \in {encryptEntryBody(gcm, _dek, table, entryId, version, body,
                                   DataSeed(rnd.data))} :
           /\ res' = [Outcome("encryptEntryBody", r.err, << >>, r.out, << >>, << >>,
                              _dek = NoKey)
                         EXCEPT !.req = [NoReq EXCEPT !.table = table,
                                            !.entryId = entryId, !.version = version,
                                            !.plain = body]]
           /\ IF r.err # ""
                THEN UNCHANGED << gcm, rnd, vaultData >>
                ELSE /\ gcm' = r.table
                     /\ rnd' = [rnd EXCEPT !.data = @ + 1]
                     /\ vaultData' = vaultData \cup
                            {Item(Cardinality(vaultData) + 1, "entry", table, entryId,
                                  version, r.out, body, _dek, NoHeader)}
    /\ UNCHANGED << store, sessionVars, calls, user, fired, setupDek, db >>

DecryptEntryWith(item, table, entryId, version, ivB64, ctB64) ==
    /\ budget.reads > 0
    /\ budget' = [budget EXCEPT !.reads = @ - 1]
    /\ \E r \in {decryptEntryBody(gcm, _dek, table, entryId, version, ivB64, ctB64)} :
           res' = [Outcome("decryptEntryBody", r.err, r.val, NoWrap, << >>, << >>,
                           _dek = NoKey)
                      EXCEPT !.req = Req(item, table, entryId, version, ivB64, ctB64,
                                         "cached")]
    /\ UNCHANGED << store, sessionVars, calls, rnd, gcm, user, vaultData, db, fired, setupDek >>

\* the stored entry, read back for its own record or for another one
DecryptEntry(item, table, entryId, version) ==
    /\ item \in vaultData
    /\ item.kind = "entry"
    /\ DecryptEntryWith(item, table, entryId, version, item.ivB64, item.ctB64)

\* the stored texts << ivB64, ctB64 >> of an item with one of them altered
AlteredPairs(item) ==
    { << iv, item.ctB64 >> : iv \in Alterations(item.ivB64) }
    \cup { << item.ivB64, ct >> : ct \in Alterations(item.ctB64) }

\* the stored entry, after its IV or its ciphertext was altered
DecryptAlteredEntry(item, pair) ==
    /\ item \in vaultData
    /\ item.kind = "entry"
    /\ DecryptEntryWith(item, item.table, item.entryId, item.version, pair[1], pair[2])

\* decryptEntryBody for texts that no encryption returned
NoItem == [n |-> 0]
ForeignText == << 65, 65, 65, 65 >>        \* "AAAA"

DecryptForeign(table, entryId, version) ==
    DecryptEntryWith(NoItem, table, entryId, version, ForeignText, ForeignText)

EncryptBackup(plain) ==
    /\ budget.writes > 0
    /\ budget' = [budget EXCEPT !.writes = @ - 1]
    /\ \E r \in {encryptBackupPayload(gcm, _dek, plain, DataSeed(rnd.data))} :
           /\ res' = [Outcome("encryptBackupPayload", r.err, << >>, r.out, << >>,
                              << >>, _dek = NoKey)
                         EXCEPT !.req = [NoReq EXCEPT !.plain = plain]]
           /\ IF r.err # ""
                THEN UNCHANGED << gcm, rnd, vaultData >>
                ELSE /\ gcm' = r.table
                     /\ rnd' = [rnd EXCEPT !.data = @ + 1]
                     /\ vaultData' = vaultData \cup
                            {Item(Cardinality(vaultData) + 1, "backup", << >>, << >>, 0,
                                  r.out, plain, _dek,
                                  exportMetaForBackup(loadVaultMeta(store)))}
    /\ UNCHANGED << store, sessionVars, calls, user, fired, setupDek, db >>

\* the key given to decryptBackupPayload: the cached DEK, or the bytes that
\* unwrapDEKFromHeader returned for the header of the backup
BackupKey(item, key) ==
    IF key = "cached" THEN _dek
    ELSE LET bytes == unwrapDEKFromHeader(gcm, item.header, key,
                          IF key = "passphrase" THEN user.pass ELSE user.code)
         IN  IF IsError(bytes) THEN NoKey ELSE importKeyRaw(bytes, FALSE)

KeyInputs == {"cached", "passphrase", "recovery"}

\* the stored backup payload, as stored or altered, decrypted with dekKey
DecryptBackup(item, key, dekKey, pair) ==
    /\ item \in vaultData
    /\ item.kind = "backup"
    /\ budget.reads > 0
    /\ dekKey # NoKey
    /\ budget' = [budget EXCEPT !.reads = @ - 1]
    /\ \E r \in {decryptBackupPayload(gcm, pair[1], pair[2], dekKey)} :
           res' = [Outcome("decryptBackupPayload", r.err, r.val, NoWrap, << >>, << >>,
                           _dek = NoKey)
                      EXCEPT !.req = Req(item, << >>, << >>, 0, pair[1], pair[2], key)]
    /\ UNCHANGED << store, sessionVars, calls, rnd, gcm, user, vaultData, db, fired, setupDek >>

(***************************************************************************)
(* The backup header (vault.js:279-291, 309-321) and the start of the      *)
(* process.                                                                *)
(***************************************************************************)
\* a header that exportMetaForBackup returned, kept by the caller; dek is
\* the DEK that the wraps of the header were made for
HeaderItem(n, header) ==
    [n |-> n, at |-> res.n + 1, kind |-> "header", table |-> << >>,
     entryId |-> << >>, version |-> 0, ivB64 |-> << >>, ctB64 |-> << >>,
     plain |-> << >>, dek |-> setupDek, header |-> header]

\* exportMetaForBackup(): throws when the vault is not enabled
ExportMeta ==
    /\ budget.reads > 0
    /\ budget' = [budget EXCEPT !.reads = @ - 1]
    /\ LET meta == loadVaultMeta(store)
       IN  IF ~meta.enabled
             THEN /\ res' = Outcome("exportMetaForBackup", ErrNotEnabled, << >>,
                                    NoWrap, << >>, << >>, _dek = NoKey)
                  /\ UNCHANGED vaultData
             ELSE /\ res' = Outcome("exportMetaForBackup", "", << >>, NoWrap,
                                    << >>, << >>, _dek = NoKey)
                  /\ vaultData' = vaultData \cup
                         {HeaderItem(Cardinality(vaultData) + 1,
                                     exportMetaForBackup(meta))}
    /\ UNCHANGED << store, sessionVars, calls, rnd, gcm, user, fired, setupDek, db >>

\* the error unwrapDEKFromHeader raises: the rejection of the decryption,
\* the exception of atob, or its own for a kind it does not know
UnwrapErrorName(bytes) ==
    IF bytes = UnknownKindError THEN ErrUnknownKind ELSE DecryptErrorName(bytes)

KindInputs == {"passphrase", "recovery", "biometric"}

\* unwrapDEKFromHeader(header, kind, secret) for the header of a stored
\* backup or a header kept by the caller; val is the bytes it returns
UnwrapHeader(item, kind, secret) ==
    /\ item \in vaultData
    /\ item.header # NoHeader
    /\ budget.reads > 0
    /\ budget' = [budget EXCEPT !.reads = @ - 1]
    /\ \E bytes \in {unwrapDEKFromHeader(gcm, item.header, kind, secret)} :
           res' = [Outcome("unwrapDEKFromHeader",
                           IF IsError(bytes) THEN UnwrapErrorName(bytes) ELSE "",
                           IF IsError(bytes) THEN << >> ELSE bytes,
                           NoWrap, secret, << >>, _dek = NoKey)
                      EXCEPT !.req = Req(item, << >>, << >>, 0, << >>, << >>, kind)]
    /\ UNCHANGED << store, sessionVars, calls, rnd, gcm, user, vaultData, db, fired, setupDek >>

(***************************************************************************)
(* backup.js, the module of lines 779-924: the database as JSON text, the  *)
(* encrypted envelope, and the import of a file.  The rows of the tables   *)
(* are journal rows {id, text}; the other tables are empty.                *)
(***************************************************************************)
ErrUnlockBeforeExport == "Unlock the vault before exporting."
\* err.code of the rejection 'Encrypted backup detected: ...'
ErrNeedsSecret == "NEEDS_SECRET"
ErrNotJson == "Decrypted payload is not valid JSON."
\* the rejection of a Dexie call (a read of the tables, a transaction)
ErrDatabase == "DatabaseError"

Row(id, text) == [id |-> id, text |-> text]

\* {\n  "version": 1,\n  "exportedAt": 
JsonHead ==
    << 123, 10, 32, 32, 34, 118, 101, 114, 115, 105, 111, 110, 34, 58, 32,
       49, 44, 10, 32, 32, 34, 101, 120, 112, 111, 114, 116, 101, 100, 65,
       116, 34, 58, 32 >>

\* ,\n  "data": {\n    "categories": [],\n    "requestors": [],\n    "prayers": [],\n    "events": [],\n    "journalEntries": 
JsonData ==
    << 44, 10, 32, 32, 34, 100, 97, 116, 97, 34, 58, 32, 123, 10, 32, 32, 32,
       32, 34, 99, 97, 116, 101, 103, 111, 114, 105, 101, 115, 34, 58, 32,
       91, 93, 44, 10, 32, 32, 32, 32, 34, 114, 101, 113, 117, 101, 115, 116,
       111, 114, 115, 34, 58, 32, 91, 93, 44, 10, 32, 32, 32, 32, 34, 112,
       114, 97, 121, 101, 114, 115, 34, 58, 32, 91, 93, 44, 10, 32, 32, 32,
       32, 34, 101, 118, 101, 110, 116, 115, 34, 58, 32, 91, 93, 44, 10, 32,
       32, 32, 32, 34, 106, 111, 117, 114, 110, 97, 108, 69, 110, 116, 114,
       105, 101, 115, 34, 58, 32 >>

\* \n  }\n}
JsonTail ==
    << 10, 32, 32, 125, 10, 125 >>

\*       {\n        "id": 
JsonRowId ==
    << 32, 32, 32, 32, 32, 32, 123, 10, 32, 32, 32, 32, 32, 32, 32, 32, 34,
       105, 100, 34, 58, 32 >>

\* ,\n        "text": 
JsonRowText ==
    << 44, 10, 32, 32, 32, 32, 32, 32, 32, 32, 34, 116, 101, 120, 116, 34,
       58, 32 >>

\* \n      }
JsonRowEnd ==
    << 10, 32, 32, 32, 32, 32, 32, 125 >>

\* []
JsonNoRows ==
    << 91, 93 >>

\* [\n
JsonRowsOpen ==
    << 91, 10 >>

\* ,\n
JsonRowsSep ==
    << 44, 10 >>

\* \n    ]
JsonRowsClose ==
    << 10, 32, 32, 32, 32, 93 >>

\* {"header":{"version":1,"type":"cp/encrypted-backup","kdf":{"algo":"PBKDF2","hash":"SHA-256","iterations":
EnvHeader ==
    << 123, 34, 104, 101, 97, 100, 101, 114, 34, 58, 123, 34, 118, 101, 114,
       115, 105, 111, 110, 34, 58, 49, 44, 34, 116, 121, 112, 101, 34, 58,
       34, 99, 112, 47, 101, 110, 99, 114, 121, 112, 116, 101, 100, 45, 98,
       97, 99, 107, 117, 112, 34, 44, 34, 107, 100, 102, 34, 58, 123, 34, 97,
       108, 103, 111, 34, 58, 34, 80, 66, 75, 68, 70, 50, 34, 44, 34, 104,
       97, 115, 104, 34, 58, 34, 83, 72, 65, 45, 50, 53, 54, 34, 44, 34, 105,
       116, 101, 114, 97, 116, 105, 111, 110, 115, 34, 58 >>

\* ,"salt":"
EnvSalt ==
    << 44, 34, 115, 97, 108, 116, 34, 58, 34 >>

\* "},"recovery":{"iterations":
EnvRecovery ==
    << 34, 125, 44, 34, 114, 101, 99, 111, 118, 101, 114, 121, 34, 58, 123,
       34, 105, 116, 101, 114, 97, 116, 105, 111, 110, 115, 34, 58 >>

\* "},"wraps":{"pass":{"ivB64":"
EnvWrapsPass ==
    << 34, 125, 44, 34, 119, 114, 97, 112, 115, 34, 58, 123, 34, 112, 97,
       115, 115, 34, 58, 123, 34, 105, 118, 66, 54, 52, 34, 58, 34 >>

\* ","ctB64":"
EnvCt ==
    << 34, 44, 34, 99, 116, 66, 54, 52, 34, 58, 34 >>

\* "},"recovery":{"ivB64":"
EnvWrapsRecovery ==
    << 34, 125, 44, 34, 114, 101, 99, 111, 118, 101, 114, 121, 34, 58, 123,
       34, 105, 118, 66, 54, 52, 34, 58, 34 >>

\* "}},"cipher":{"algo":"AES-GCM","ivBytes":
EnvCipher ==
    << 34, 125, 125, 44, 34, 99, 105, 112, 104, 101, 114, 34, 58, 123, 34,
       97, 108, 103, 111, 34, 58, 34, 65, 69, 83, 45, 71, 67, 77, 34, 44, 34,
       105, 118, 66, 121, 116, 101, 115, 34, 58 >>

\* ,"keyBits":
EnvKeyBits ==
    << 44, 34, 107, 101, 121, 66, 105, 116, 115, 34, 58 >>

\* },"payload":{"ivB64":"
EnvPayload ==
    << 125, 44, 34, 112, 97, 121, 108, 111, 97, 100, 34, 58, 123, 34, 105,
       118, 66, 54, 52, 34, 58, 34 >>

\* "}}
EnvEnd ==
    << 34, 125, 125 >>

\* a"b
BodyQuote ==
    << 97, 34, 98 >>

RowInputs == {Row(1, BodyText), Row(1, BodyQuote), Row(2, BodyText)}

\* the contents a table can have: the primary key id is unique
Databases == { d \in SUBSET RowInputs : \A a, b \in d : a.id = b.id => a = b }

\* one hexadecimal digit, lower case
LowerHexDigit(d) == IF d < 10 THEN 48 + d ELSE 97 + (d - 10)

\* JSON.stringify of one code unit of a string (the strings of the rows
\* hold no surrogates)
JsonEscape(c) ==
    IF c = 34 THEN << 92, 34 >>
    ELSE IF c = 92 THEN << 92, 92 >>
    ELSE IF c = 8 THEN << 92, 98 >>
    ELSE IF c = 9 THEN << 92, 116 >>
    ELSE IF c = 10 THEN << 92, 110 >>
    ELSE IF c = 12 THEN << 92, 102 >>
    ELSE IF c = 13 THEN << 92, 114 >>
    ELSE IF c < 32
        THEN << 92, 117, 48, 48, LowerHexDigit(c \div 16), LowerHexDigit(c % 16) >>
    ELSE << c >>

RECURSIVE JsonEscapeAll(_)
JsonEscapeAll(str) ==
    IF Len(str) = 0 THEN << >>
    ELSE JsonEscape(str[1]) \o JsonEscapeAll(SubSeq(str, 2, Len(str)))

\* JSON.stringify of a string
JsonQuote(str) == << 34 >> \o JsonEscapeAll(str) \o << 34 >>

\* table.toArray(): the rows in the order of the primary key
RECURSIVE toArray(_)
toArray(rows) ==
    IF rows = {} THEN << >>
    ELSE LET first == CHOOSE r \in rows : \A o \in rows : r.id <= o.id
         IN  << first >> \o toArray(rows \ {first})

\* a row at the depth of the arrays of data, indented by two spaces a level
JsonRow(r) ==
    JsonRowId \o NumberToString(r.id) \o JsonRowText \o JsonQuote(r.text)
    \o JsonRowEnd

RECURSIVE JsonRows(_)
JsonRows(arr) ==
    IF Len(arr) = 1 THEN JsonRow(arr[1])
    ELSE JsonRow(arr[1]) \o JsonRowsSep \o JsonRows(SubSeq(arr, 2, Len(arr)))

JsonArray(arr) ==
    IF Len(arr) = 0 THEN JsonNoRows
    ELSE JsonRowsOpen \o JsonRows(arr) \o JsonRowsClose

\* exportAllAsJson(), after the tables were read: JSON.stringify(payload,
\* null, 2) for the rows read and the time Date.now() returned
exportAllAsJson(rows, now) ==
    JsonHead \o NumberToString(now) \o JsonData \o JsonArray(toArray(rows))
    \o JsonTail

\* JSON.parse of a decrypted payload: the object whose text it is, when it
\* is the text of an export made up to the time clock; the other payloads
\* of the model ("hi") are not JSON texts
NotJson == [version |-> 0]

JsonParse(text, clock) ==
    IF \E d \in Databases, t \in 0..clock : exportAllAsJson(d, t) = text
        THEN CHOOSE obj \in [version : {1}, exportedAt : 0..clock,
                             journalEntries : Databases] :
                 exportAllAsJson(obj.journalEntries, obj.exportedAt) = text
        ELSE NotJson

\* JSON.stringify(envelope): the header that exportMetaForBackup returned
\* and the payload, without white space; the names of the algorithms are
\* the ones enableVaultFirstTime writes
EnvelopeText(header, payload) ==
    EnvHeader \o NumberToString(header.kdf.iterations)
    \o EnvSalt \o header.kdf.salt
    \o EnvRecovery \o NumberToString(header.recovery.iterations)
    \o EnvSalt \o header.recovery.salt
    \o EnvWrapsPass \o header.wraps.pass.ivB64
    \o EnvCt \o header.wraps.pass.ctB64
    \o EnvWrapsRecovery \o header.wraps.recovery.ivB64
    \o EnvCt \o header.wraps.recovery.ctB64
    \o EnvCipher \o NumberToString(header.cipher.ivBytes)
    \o EnvKeyBits \o NumberToString(header.cipher.keyBits)
    \o EnvPayload \o payload.ivB64
    \o EnvCt \o payload.ctB64
    \o EnvEnd

\* the object a file holds
Envelope(header, payload) == [header |-> header, payload |-> payload]

isEncryptedBackup(obj) ==
    /\ obj.header # NoHeader
    /\ obj.payload # NoWrap
    /\ obj.header.type = "cp/encrypted-backup"

\* importFromJsonBackup, committed: replace clears the table and adds the
\* rows of the file; merge puts each row of the file in the place of the
\* row with its id, or adds it
importFromJsonBackup(rows, obj, mode) ==
    IF mode = "replace"
        THEN obj.journalEntries
        ELSE { r \in rows : \A i \in obj.journalEntries : i.id # r.id }
             \cup obj.journalEntries

\* exportEncryptedBackup after the tables were read (backup.js:832-842):
\* the header, the encryption of the clear JSON, the envelope
exportEncryptedBackup(gcmTable, meta, dek, clear, ivSeed) ==
    IF ~meta.enabled
        THEN [err |-> ErrNotEnabled, header |-> NoHeader, out |-> NoWrap,
              table |-> gcmTable]
        ELSE LET e == encryptBackupPayload(gcmTable, dek, clear, ivSeed)
             IN  [err |-> e.err,
                  header |-> IF e.err = "" THEN exportMetaForBackup(meta)
                             ELSE NoHeader,
                  out |-> e.out, table |-> e.table]

\* importClear with a slip: a text that is not JSON is imported as an object
\* without data
importClearNoData(rows, clear, mode, commits, clock) ==
    LET clearObj == JsonParse(clear, clock)
    IN  IF ~commits
            THEN [err |-> ErrDatabase, val |-> clear, db |-> rows]
        ELSE [err |-> "", val |-> clear,
              db |-> importFromJsonBackup(rows,
                         IF clearObj = NotJson THEN [journalEntries |-> {}]
                         ELSE clearObj, mode)]
\* the end of the encrypted branch of importSmartFromFileText
\* (backup.js:910-914): the decrypted text is parsed and imported; val is
\* the text importFromJsonBackup was called for, db the table afterwards;
\* a transaction that the database rejects leaves the table as it was
importClear(rows, clear, mode, commits, clock) ==
    LET clearObj == JsonParse(clear, clock)
    IN  IF clearObj = NotJson
            THEN [err |-> ErrNotJson, val |-> << >>, db |-> rows]
        ELSE IF ~commits
            THEN [err |-> ErrDatabase, val |-> clear, db |-> rows]
        ELSE [err |-> "", val |-> clear,
              db |-> importFromJsonBackup(rows, clearObj, mode)]

\* importSmartFromFileText for a file that isEncryptedBackup accepts; a
\* secretKind or a secret that is missing is "" or the empty string
importSmartFromFileText(gcmTable, rows, obj, secretKind, secret, mode, commits, clock) ==
    IF secretKind = "" \/ secret = << >>
        THEN [err |-> ErrNeedsSecret, val |-> << >>, db |-> rows]
    ELSE LET dekBytes == unwrapDEKFromHeader(gcmTable, obj.header, secretKind,
                                             secret)
         IN  IF IsError(dekBytes)
                 THEN [err |-> UnwrapErrorName(dekBytes), val |-> << >>,
                       db |-> rows]
             ELSE LET r == decryptBackupPayload(gcmTable, obj.payload.ivB64,
                               obj.payload.ctB64, importKeyRaw(dekBytes, FALSE))
                  IN  IF r.err # ""
                          THEN [err |-> r.err, val |-> << >>, db |-> rows]
                          ELSE importClear(rows, r.val,
                                           IF mode = "" THEN "merge" ELSE mode,
                                           commits, clock)

ExportOps == {"exportSmartJson", "exportEncryptedBackup"}

\* ExportStart with a slip: the export takes the plain branch whatever the
\* state of the vault
ExportStartPlain(fn) ==
    /\ CanStart
    /\ budget' = Spend
    /\ calls' = calls \cup
           {Call(NextCallId, fn, "plain", << >>, << >>, loadVaultMeta(store), 0,
                 FALSE)}
    /\ UNCHANGED << store, sessionVars, rnd, gcm, res, user, vaultData, db, fired,
                    setupDek >>
\* exportSmartJson() or exportEncryptedBackup() up to the read of the
\* tables: both take the encrypted branch when the vault is enabled
ExportStart(fn) ==
    /\ CanStart
    /\ budget' = Spend
    /\ IF isVaultEnabled(loadVaultMeta(store)) /\ ~isUnlocked(_dek)
         THEN /\ res' = Outcome(fn, ErrUnlockBeforeExport, << >>, NoWrap, << >>,
                                << >>, TRUE)
              /\ UNCHANGED calls
         ELSE /\ calls' = calls \cup
                    {Call(NextCallId, fn,
                          IF isVaultEnabled(loadVaultMeta(store))
                              THEN "encrypt" ELSE "plain",
                          << >>, << >>, loadVaultMeta(store), 0, FALSE)}
              /\ UNCHANGED res
    /\ UNCHANGED << store, sessionVars, rnd, gcm, user, vaultData, db, fired,
                    setupDek >>

\* the read of the tables ends: it rejects, or the export goes on with the
\* text of the rows; the file returned is kept as a stored backup
ExportRead(c, ok) ==
    /\ c \in calls
    /\ c.op \in ExportOps
    /\ calls' = calls \ {c}
    /\ IF ~ok
         THEN /\ res' = OutcomeOf(c, ErrDatabase, << >>)
              /\ UNCHANGED << gcm, rnd, vaultData >>
       ELSE IF c.pc = "plain"
         THEN /\ res' = [OutcomeOf(c, "", exportAllAsJson(db, res.n))
                            EXCEPT !.req = [NoReq EXCEPT
                                               !.plain = exportAllAsJson(db, res.n)]]
              /\ UNCHANGED << gcm, rnd, vaultData >>
       ELSE \E e \in {exportEncryptedBackup(gcm, loadVaultMeta(store), _dek,
                          exportAllAsJson(db, res.n), DataSeed(rnd.data))} :
              /\ res' = [Outcome(c.op, e.err, << >>, e.out, << >>, << >>,
                                 c.wasLocked)
                            EXCEPT !.req = [NoReq EXCEPT
                                   !.plain = exportAllAsJson(db, res.n),
                                   !.item = IF e.err = ""
                                                THEN Cardinality(vaultData) + 1
                                                ELSE 0]]
              /\ IF e.err # ""
                   THEN UNCHANGED << gcm, rnd, vaultData >>
                   ELSE /\ gcm' = e.table
                        /\ rnd' = [rnd EXCEPT !.data = @ + 1]
                        /\ vaultData' = vaultData \cup
                               {Item(Cardinality(vaultData) + 1, "backup", << >>,
                                     << >>, 0, e.out, exportAllAsJson(db, res.n),
                                     _dek, e.header)}
    /\ UNCHANGED << store, sessionVars, user, db, fired, setupDek, budget >>

\* options.mode: not given (merge is the default), or replace
ModeInputs == {"", "replace"}

\* importSmartFromFileText(fileText, {mode, secretKind, secret}) for the
\* file of a stored backup, its payload as stored or altered; the database
\* commits the transaction of the import or rejects it
ImportSmart(item, pair, secretKind, secret, mode, commits) ==
    /\ item \in vaultData
    /\ item.kind = "backup"
    /\ isEncryptedBackup(Envelope(item.header,
                                  [ivB64 |-> pair[1], ctB64 |-> pair[2]]))
    /\ budget.ops > 0
    /\ budget' = Spend
    /\ \E r \in {importSmartFromFileText(gcm, db,
                     Envelope(item.header, [ivB64 |-> pair[1], ctB64 |-> pair[2]]),
                     secretKind, secret, mode, commits, res.n)} :
           /\ res' = [Outcome("importSmartFromFileText", r.err, r.val, NoWrap,
                              secret, << >>, _dek = NoKey)
                         EXCEPT !.req = [Req(item, << >>, << >>, 0, pair[1], pair[2],
                                             secretKind)
                                            EXCEPT !.mode = mode,
                                                   !.commits = commits]]
           /\ db' = r.db
    /\ UNCHANGED << store, sessionVars, calls, rnd, gcm, user, vaultData, fired,
                    setupDek >>

\* a journal entry is saved: added, or written over the row with its id
PutRow(r) ==
    /\ budget.writes > 0
    /\ budget' = [budget EXCEPT !.writes = @ - 1]
    /\ db' = { x \in db : x.id # r.id } \cup {r}
    /\ UNCHANGED << store, sessionVars, calls, rnd, gcm, res, user, vaultData,
                    fired, setupDek >>
\* the process starts: the page is loaded again, or the application is
\* opened in another browser, whose localStorage holds st.  The module
\* state is the one of lines 11-14 and the suspended calls are gone.
Restart(st) ==
    /\ budget.ops > 0
    /\ budget' = Spend
    /\ store' = st
    /\ _dek' = NoKey
    /\ _idleMin' = DefaultIdleMin
    /\ _idleTimer' = 0
    /\ _activityBound' = FALSE
    /\ timers' = {}
    /\ calls' = {}
    /\ res' = Outcome("restart", "", << >>, NoWrap, << >>, << >>, _dek = NoKey)
    /\ UNCHANGED << rnd, gcm, user, vaultData, db, fired, setupDek >>

(***************************************************************************)
(* Bounds of the model: the calls the caller makes in each specification   *)
(* (enable, unlock, change, regenerate, lock, setIdleMinutes), the         *)
(* activity events, the encryptions and the decryptions.                   *)
(***************************************************************************)
MaxOps == 3
MaxGuardOps == 3
MaxDataOps == 3
MaxIdleOps == 3
MaxActivity == 1
MaxWrites == 1
MaxReads == 1
MaxSessionOps == 3
MaxImportOps == 3
MaxOverlapOps == 4
MaxInFlight == 2
MaxBackupOps == 3
MaxBackupWrites == 2
MaxMinutesOps == 3

(***************************************************************************)
(* The state after the module is loaded, with nothing stored.              *)
(***************************************************************************)
InitState ==
    /\ store = NoMeta
    /\ _dek = NoKey
    /\ _idleMin = DefaultIdleMin
    /\ _idleTimer = 0
    /\ _activityBound = FALSE
    /\ timers = {}
    /\ calls = {}
    /\ rnd = [enable |-> 0, change |-> 0, regen |-> 0, data |-> 0]
    /\ gcm = << >>
    /\ res = OutcomeAt(0, NoBefore, "none", "", << >>, NoWrap, << >>, << >>, TRUE)
    /\ user = [pass |-> << >>, code |-> << >>, oldPass |-> << >>, oldCode |-> << >>]
    /\ vaultData = {}
    /\ fired = [any |-> FALSE, min |-> 0, age |-> 0, unlocked |-> FALSE]
    /\ setupDek = NoKey
    /\ db = {}

\* the pending timers that are due next
NextDue == { t.left : t \in timers }

(***************************************************************************)
(* Spec: the lifecycle calls, made one at a time, and the idle timer.      *)
(***************************************************************************)
Init ==
    /\ InitState
    /\ budget = [ops |-> MaxOps, activity |-> 0, writes |-> 0, reads |-> 0,
                 inflight |-> 1]

Next ==
    \/ \E p \in {PassShort, PassA} : EnableStart(p)
    \/ \E c \in calls : EnableDone(c)
    \/ \E p \in {PassA, PassB} : UnlockPassStart(p)
    \/ \E c \in calls : UnlockPassDone(c)
    \/ \E code \in CodeInputs : UnlockCodeStart(code)
    \/ \E c \in calls : UnlockCodeDone(c)
    \/ \E old \in {PassA, PassB}, new \in {PassShort, PassB} : ChangeStart(old, new)
    \/ \E c \in calls : ChangeUnlocked(c)
    \/ \E c \in calls : ChangeDone(c)
    \/ RegenStart
    \/ \E c \in calls : RegenDone(c)
    \/ LockNow
    \/ \E t \in timers : TimerFires(t)
    \/ \E d \in NextDue : TimePasses(d)

Spec == Init /\ [][Next]_vars

(***************************************************************************)
(* SpecGuard: the calls that need the cached DEK, made in whatever state   *)
(* the vault is in: before it is set up, unlocked, locked by the caller or *)
(* locked by the idle timer.                                               *)
(***************************************************************************)
InitGuard ==
    /\ InitState
    /\ budget = [ops |-> MaxGuardOps, activity |-> 0, writes |-> MaxWrites,
                 reads |-> MaxReads, inflight |-> 1]

NextGuard ==
    \/ ~isVaultEnabled(store) /\ EnableStart(PassA)
    \/ \E c \in calls : EnableDone(c)
    \/ UnlockPassStart(PassA)
    \/ \E c \in calls : UnlockPassDone(c)
    \/ RegenStart
    \/ \E c \in calls : RegenDone(c)
    \/ LockNow
    \/ \E t \in timers : TimerFires(t)
    \/ \E d \in NextDue : TimePasses(d)
    \/ EncryptEntry(TableA, IdA, 1, BodyText)
    \/ EncryptBackup(BodyText)
    \/ \E item \in vaultData : DecryptEntry(item, item.table, item.entryId, item.version)
    \/ DecryptForeign(TableA, IdA, 1)

SpecGuard == InitGuard /\ [][NextGuard]_vars

(***************************************************************************)
(* SpecData: a vault that is set up once, locked and unlocked again, and   *)
(* the encryption calls: entries under several identities and bodies,      *)
(* backups, and what the storage layer presents for decryption.            *)
(***************************************************************************)
EntryA == [table |-> TableA, entryId |-> IdA, version |-> 1]

EntryInputs ==
    { EntryA,
      [table |-> TableB, entryId |-> IdA, version |-> 1],
      [table |-> TableA, entryId |-> IdB, version |-> 1],
      [table |-> TableA, entryId |-> IdA, version |-> 2] }

\* the entries written: one body under each identity, each body under one
WriteInputs ==
    { << e, BodyText >> : e \in EntryInputs }
    \cup { << EntryA, body >> : body \in BodyInputs }

InitData ==
    /\ InitState
    /\ budget = [ops |-> MaxDataOps, activity |-> 0, writes |-> MaxWrites,
                 reads |-> MaxReads, inflight |-> 1]

NextData ==
    \/ ~isVaultEnabled(store) /\ EnableStart(PassA)
    \/ \E c \in calls : EnableDone(c)
    \/ UnlockPassStart(PassA)
    \/ \E c \in calls : UnlockPassDone(c)
    \/ \E code \in {user.code} \ {<< >>} : UnlockCodeStart(code)
    \/ \E c \in calls : UnlockCodeDone(c)
    \/ LockNow
    \/ \E w \in WriteInputs :
          EncryptEntry(w[1].table, w[1].entryId, w[1].version, w[2])
    \/ \E item \in vaultData, e \in EntryInputs :
          DecryptEntry(item, e.table, e.entryId, e.version)
    \/ \E item \in vaultData : \E pair \in AlteredPairs(item) :
          DecryptAlteredEntry(item, pair)
    \/ \E plain \in {<< >>, BodyText} : EncryptBackup(plain)
    \/ \E item \in vaultData, key \in KeyInputs :
          \E pair \in AlteredPairs(item) \cup {<< item.ivB64, item.ctB64 >>} :
             DecryptBackup(item, key, BackupKey(item, key), pair)

SpecData == InitData /\ [][NextData]_vars

(***************************************************************************)
(* SpecIdle: the idle timer.  The vault is set up once; the caller locks,  *)
(* unlocks and sets the idle minutes, activity events arrive, and time     *)
(* passes a minute at a time or up to the moment the timer is due.  The    *)
(* event loop runs a callback that is due and settles a pending promise,   *)
(* and time does not stop.                                                 *)
(***************************************************************************)
IdleInputs == {JsInt(0), JsInt(1), JsInt(35792)}

InitIdle ==
    /\ InitState
    /\ budget = [ops |-> MaxIdleOps, activity |-> MaxActivity, writes |-> 0,
                 reads |-> 0, inflight |-> 1]

Tick == \E d \in NextDue \cup {MsPerMinute} : TimePasses(d)

RunTimer == \E t \in timers : TimerFires(t)

Settle == \E c \in calls : EnableDone(c) \/ UnlockPassDone(c)

\* a pending call ends: the steps of Settle, and enabled when Settle is
Settled == \E c \in calls : calls' = calls \ {c}

NextIdle ==
    \/ ~isVaultEnabled(store) /\ EnableStart(PassA)
    \/ UnlockPassStart(PassA)
    \/ Settle
    \/ LockNow
    \/ Activity
    \/ \E min \in IdleInputs : SetIdleMinutes(min)
    \/ RunTimer
    \/ Tick

SpecIdle ==
    /\ InitIdle
    /\ [][NextIdle]_vars
    /\ WF_vars(Tick)
    /\ WF_vars(RunTimer)
    /\ WF_calls(Settled)

(***************************************************************************)
(* SpecSession: every call of the module, in whatever order the caller     *)
(* makes them, the idle timer, the activity events and the page loaded     *)
(* again.  enableVaultFirstTime may be called on a vault that is enabled,  *)
(* and with passphrases that are too short.                                *)
(***************************************************************************)
InitSession ==
    /\ InitState
    /\ budget = [ops |-> MaxSessionOps, activity |-> MaxActivity,
                 writes |-> MaxWrites, reads |-> MaxReads, inflight |-> 1]

NextSession ==
    \/ \E p \in {PassEmpty, PassShort, PassA} : EnableStart(p)
    \/ \E c \in calls : EnableDone(c)
    \/ \E p \in {PassA, PassB} : UnlockPassStart(p)
    \/ \E c \in calls : UnlockPassDone(c)
    \/ \E code \in CodeInputs : UnlockCodeStart(code)
    \/ \E c \in calls : UnlockCodeDone(c)
    \/ \E new \in {PassShort, PassB} : ChangeStart(PassA, new)
    \/ \E c \in calls : ChangeUnlocked(c)
    \/ \E c \in calls : ChangeDone(c)
    \/ RegenStart
    \/ \E c \in calls : RegenDone(c)
    \/ LockNow
    \/ SetIdleMinutes(JsInt(1))
    \/ Activity
    \/ \E t \in timers : TimerFires(t)
    \/ \E d \in NextDue : TimePasses(d)
    \/ Restart(store)
    \/ EncryptEntry(TableA, IdA, 1, BodyText)
    \/ \E item \in vaultData : DecryptEntry(item, item.table, item.entryId, item.version)
    \/ EncryptBackup(BodyText)
    \/ \E item \in vaultData :
          DecryptBackup(item, "cached", _dek, << item.ivB64, item.ctB64 >>)
    \/ ExportMeta
    \/ \E item \in vaultData, kind \in KindInputs :
          UnwrapHeader(item, kind, user.pass)

SpecSession == InitSession /\ [][NextSession]_vars

(***************************************************************************)
(* SpecImport: backups and their headers.  The vault is set up (and may be *)
(* set up again), locked and unlocked, and the rotations are attempted;    *)
(* payloads are encrypted and headers exported; the process starts again   *)
(* in the same browser or in another one, whose localStorage is empty or   *)
(* holds an item without the enabled flag; and the import unwraps the DEK  *)
(* from a header and decrypts the payload.                                 *)
(***************************************************************************)
InitImport ==
    /\ InitState
    /\ budget = [ops |-> MaxImportOps, activity |-> 0, writes |-> MaxWrites,
                 reads |-> MaxReads, inflight |-> 1]

\* what the caller may type as the secret of a header
SecretInputs == ({user.pass, user.code} \ {<< >>}) \cup {PassB}

NextImport ==
    \/ EnableStart(PassA)
    \/ \E c \in calls : EnableDone(c)
    \/ UnlockPassStart(PassA)
    \/ \E c \in calls : UnlockPassDone(c)
    \/ \E code \in {user.code, WrongCode} \ {<< >>} : UnlockCodeStart(code)
    \/ \E c \in calls : UnlockCodeDone(c)
    \/ ChangeStart(PassA, PassB)
    \/ \E c \in calls : ChangeUnlocked(c)
    \/ \E c \in calls : ChangeDone(c)
    \/ RegenStart
    \/ \E c \in calls : RegenDone(c)
    \/ LockNow
    \/ \E st \in {store, NoMeta, DisabledMeta} : Restart(st)
    \/ \E plain \in {<< >>, BodyText, BodyBom} : EncryptBackup(plain)
    \/ ExportMeta
    \/ \E item \in vaultData, kind \in KindInputs, secret \in SecretInputs :
          UnwrapHeader(item, kind, secret)
    \/ \E item \in vaultData, key \in KeyInputs :
          DecryptBackup(item, key, BackupKey(item, key), << item.ivB64, item.ctB64 >>)

SpecImport == InitImport /\ [][NextImport]_vars

(***************************************************************************)
(* SpecBackup: the export and the import of backup files.  The vault is    *)
(* set up once; journal rows are saved; the caller exports, and the vault  *)
(* is locked by the caller or by the idle timer while the export reads the *)
(* tables; a file exported (or a payload made by encryptBackupPayload for  *)
(* a text that is not JSON) is imported with each kind of secret, as       *)
(* stored or with its payload altered, in each mode.                       *)
(***************************************************************************)
InitBackup ==
    /\ InitState
    /\ budget = [ops |-> MaxBackupOps, activity |-> 0, writes |-> MaxBackupWrites,
                 reads |-> MaxReads, inflight |-> 1]

\* a stored text with the lowest bit of its first character inverted
AlteredFirst(text) == [text EXCEPT ![1] = FlipBit(text[1], 0)]

Try(pair, secretKind, secret) ==
    [pair |-> pair, secretKind |-> secretKind, secret |-> secret]

\* what the caller presents for a file: the payload as stored with each
\* secret of the user under its kind, then with the kind or the secret
\* missing, with the secret of the other kind, with a kind that
\* unwrapDEKFromHeader does not know, and with the IV or the ciphertext
\* altered
ImportTries(item) ==
    LET stored == << item.ivB64, item.ctB64 >>
    IN  { Try(stored, "passphrase", user.pass),
          Try(stored, "recovery", user.code),
          Try(stored, "", user.pass),
          Try(stored, "passphrase", << >>),
          Try(stored, "passphrase", user.code),
          Try(stored, "recovery", user.pass),
          Try(stored, "biometric", user.pass),
          Try(<< AlteredFirst(item.ivB64), item.ctB64 >>, "passphrase", user.pass),
          Try(<< item.ivB64, AlteredFirst(item.ctB64) >>, "recovery", user.code) }

NextBackup ==
    \/ ~isVaultEnabled(store) /\ EnableStart(PassA)
    \/ \E c \in calls : EnableDone(c)
    \/ LockNow
    \/ \E t \in timers : TimerFires(t)
    \/ \E t \in timers : TimePasses(t.left)
    \/ \E r \in RowInputs : PutRow(r)
    \/ \E fn \in ExportOps : ExportStart(fn)
    \/ \E c \in calls, ok \in BOOLEAN : ExportRead(c, ok)
    \/ EncryptBackup(BodyText)
    \/ \E item \in vaultData : \E try \in ImportTries(item) :
          \E mode \in ModeInputs, commits \in BOOLEAN :
             ImportSmart(item, try.pair, try.secretKind, try.secret, mode, commits)

SpecBackup == InitBackup /\ [][NextBackup]_vars

(***************************************************************************)
(* SpecMinutes: setIdleMinutes for the values a caller can give it, on a   *)
(* vault that is not set up, unlocked or locked, with the idle timer       *)
(* running.                                                                *)
(***************************************************************************)
\* 0, 1, -3, 2.5, 0.5, 35792, NaN, the infinities, null, undefined, and the
\* strings "", "0", "20" and "hi"
MinuteInputs ==
    { JsInt(0), JsInt(1), JsInt(0 - 3), JsNumber(5, 2), JsNumber(1, 2),
      JsInt(35792), JsNaN, JsInfinity, JsNegInfinity, JsNull, JsUndefined,
      JsString(<< >>), JsString(<< 48 >>), JsString(<< 50, 48 >>),
      JsString(BodyText) }

InitMinutes ==
    /\ InitState
    /\ budget = [ops |-> MaxMinutesOps, activity |-> 0, writes |-> 0, reads |-> 0,
                 inflight |-> 1]

NextMinutes ==
    \/ ~isVaultEnabled(store) /\ EnableStart(PassA)
    \/ \E c \in calls : EnableDone(c)
    \/ LockNow
    \/ \E min \in MinuteInputs : SetIdleMinutes(min)
    \/ \E t \in timers : TimePasses(t.left)
    \/ \E t \in timers : TimerFires(t)

SpecMinutes == InitMinutes /\ [][NextMinutes]_vars

(***************************************************************************)
(* SpecOverlap: the lifecycle calls with two of them in flight at a time:  *)
(* a call is made while another one is suspended at an await, and the two  *)
(* resume in either order.                                                 *)
(***************************************************************************)
InitOverlap ==
    /\ InitState
    /\ budget = [ops |-> MaxOverlapOps, activity |-> 0, writes |-> 0, reads |-> 0,
                 inflight |-> MaxInFlight]

NextOverlap ==
    \/ EnableStart(PassA)
    \/ \E c \in calls : EnableDone(c)
    \/ UnlockPassStart(PassA)
    \/ \E c \in calls : UnlockPassDone(c)
    \/ \E code \in {user.code} \ {<< >>} : UnlockCodeStart(code)
    \/ \E c \in calls : UnlockCodeDone(c)
    \/ ChangeStart(PassA, PassB)
    \/ \E c \in calls : ChangeUnlocked(c)
    \/ \E c \in calls : ChangeDone(c)
    \/ RegenStart
    \/ \E c \in calls : RegenDone(c)
    \/ LockNow

SpecOverlap == InitOverlap /\ [][NextOverlap]_vars

(***************************************************************************)
(* Properties.  A call has ended in a step when res'.n # res.n; res' is    *)
(* then its outcome and the unprimed variables are the state it ended in.  *)
(***************************************************************************)
UnlockOps == {"unlockWithPassphrase", "unlockWithRecoveryCode"}

GuardedOps == {"encryptEntryBody", "decryptEntryBody", "encryptBackupPayload",
               "regenerateRecoveryCode"}

DecryptOps == {"decryptEntryBody", "decryptBackupPayload"}

\* the secret that unlocks: the passphrase or the recovery code the caller
\* was given last
CurrentSecret(op) == IF op = "unlockWithPassphrase" THEN user.pass ELSE user.code

WrongSecretError(op) ==
    IF op = "unlockWithPassphrase" THEN ErrWrongPass ELSE ErrWrongCode

\* metadata st, with the encryptions of table: the passphrase wrap opens
\* under the KEK of pass, the recovery wrap under the KEK of code
PassWrapDek(st, table, pass) ==
    unwrapDEKBytes(table, deriveKEK(pass, st.kdf.salt, st.kdf.iterations),
                   st.wraps.pass, DekAad)

RecoveryWrapDek(st, table, code) ==
    unwrapDEKBytes(table, deriveKEK(code, st.recovery.salt, st.recovery.iterations),
                   st.wraps.recovery, DekAad)

\* a decryption request presents the stored item, for its own record and
\* with its texts as stored
Stored(req) == req.item # 0
OwnRecord(req) ==
    /\ req.table = ItemOf(req.item).table
    /\ req.entryId = ItemOf(req.item).entryId
    /\ req.version = ItemOf(req.item).version
Unaltered(req) ==
    /\ req.ivB64 = ItemOf(req.item).ivB64
    /\ req.ctB64 = ItemOf(req.item).ctB64

\* C1: dual-wrap invariant.  Whenever the persisted metadata is enabled, the
\* passphrase wrap opened under the KEK of the current passphrase and the
\* recovery wrap opened under the KEK of the current recovery code both open,
\* and give the same 32 bytes.
C1_DualWrap ==
    isVaultEnabled(store) =>
        /\ ~IsError(PassWrapDek(store, gcm, user.pass))
        /\ Len(PassWrapDek(store, gcm, user.pass)) = DekBytes
        /\ PassWrapDek(store, gcm, user.pass) = RecoveryWrapDek(store, gcm, user.code)

\* an enabled vault on which a regeneration and then a passphrase change
\* were attempted
C1_Witness ==
    /\ isVaultEnabled(store)
    /\ res.op = "changePassphrase"
    /\ res.before.op = "regenerateRecoveryCode"

\* C2: wrong-secret rejection without side effects.  An unlock call that ends
\* on an enabled vault with a secret other than the current one fails with
\* the wrong-secret error and leaves the metadata, the cached DEK and the
\* idle timer as they were; with the current secret it succeeds and the
\* vault is unlocked, also after rejected attempts.
C2_WrongSecretRejected ==
    [][ (res'.n # res.n /\ res'.op \in UnlockOps /\ isVaultEnabled(store)) =>
          IF res'.secret # CurrentSecret(res'.op)
            THEN /\ res'.err = WrongSecretError(res'.op)
                 /\ UNCHANGED << store, sessionVars >>
            ELSE /\ res'.err = ""
                 /\ isUnlocked(_dek') ]_vars

\* an unlock that succeeded right after an unlock that was rejected
C2_Witness ==
    /\ res.op \in UnlockOps
    /\ res.err = ""
    /\ res.before.op \in UnlockOps
    /\ res.before.err \in {ErrWrongPass, ErrWrongCode}

\* C3: passphrase rotation.  changePassphrase(old, new) with the current
\* passphrase and a new one of at least 8 characters, on an enabled vault
\* that stays unlocked during the call, completes; afterwards the passphrase
\* wrap opens under new and not under old, and the recovery wrap and its
\* salt are what they were.
C3_PassphraseRotation ==
    [][ (/\ res'.n # res.n
         /\ res'.op = "changePassphrase"
         /\ isVaultEnabled(store)
         /\ isUnlocked(_dek)
         /\ res'.secret = user.pass
         /\ ~IsWeak(res'.newSecret)) =>
          /\ res'.err = ""
          /\ ~IsError(PassWrapDek(store', gcm', res'.newSecret))
          /\ (res'.secret # res'.newSecret =>
                IsError(PassWrapDek(store', gcm', res'.secret)))
          /\ store'.wraps.recovery = store.wraps.recovery
          /\ store'.recovery = store.recovery ]_vars

\* C4: recovery-code regeneration.  regenerateRecoveryCode() made while the
\* vault is unlocked, and ending with it still unlocked, completes and
\* returns a new code; afterwards the recovery wrap opens under the returned
\* code and not under the previous one, and the passphrase wrap and its salt
\* are what they were.
C4_RecoveryRegeneration ==
    [][ (/\ res'.n # res.n
         /\ res'.op = "regenerateRecoveryCode"
         /\ ~res'.wasLocked
         /\ isUnlocked(_dek)) =>
          /\ res'.err = ""
          /\ res'.val # << >>
          /\ res'.val # user.code
          /\ ~IsError(RecoveryWrapDek(store', gcm', res'.val))
          /\ IsError(RecoveryWrapDek(store', gcm', user.code))
          /\ store'.wraps.pass = store.wraps.pass
          /\ store'.kdf = store.kdf ]_vars

\* C5: dual-wrap independence after setup.  enableVaultFirstTime with a
\* passphrase of at least 8 characters returns the recovery code and leaves
\* the vault unlocked with its idle timer pending; an unlock of the locked
\* vault with that passphrase or with that code succeeds and caches the DEK
\* that the setup generated; and a stored entry, presented for its own
\* record as stored while the vault is unlocked, decrypts.  (That the text
\* returned is the text encrypted is C8.)
C5_DualWrapIndependence ==
    [][ res'.n # res.n =>
          /\ (res'.op = "enableVaultFirstTime" /\ ~IsWeak(res'.secret) =>
                /\ res'.err = ""
                /\ res'.val # << >>
                /\ isUnlocked(_dek')
                /\ \E t \in timers' : t.id = _idleTimer')
          /\ ((/\ res'.op \in UnlockOps
               /\ res'.wasLocked
               /\ res'.secret = CurrentSecret(res'.op)) =>
                /\ res'.err = ""
                /\ isUnlocked(_dek')
                /\ KeyMaterial(_dek') = setupDek
                /\ \E t \in timers' : t.id = _idleTimer')
          /\ ((/\ res'.op = "decryptEntryBody"
               /\ isUnlocked(_dek)
               /\ Stored(res'.req)
               /\ OwnRecord(res'.req)
               /\ Unaltered(res'.req)) =>
                res'.err = "") ]_vars

\* setup, an entry written, lockNow, unlockWithRecoveryCode, and the entry
\* decrypted: calls 1 to 5
C5_Witness ==
    /\ res.n = 5
    /\ res.op = "decryptEntryBody"
    /\ res.err = ""
    /\ res.before = [op |-> "unlockWithRecoveryCode", err |-> ""]
    /\ Stored(res.req)
    /\ ItemOf(res.req.item).at = 2
    /\ res.val = ItemOf(res.req.item).plain

\* C6: locked guard.  A call of encryptEntryBody, decryptEntryBody,
\* encryptBackupPayload or regenerateRecoveryCode that ends while no DEK is
\* cached fails with an error, returns no ciphertext, plaintext or recovery
\* code, and leaves the metadata, the session state and the stored items as
\* they were.
C6_LockedGuard ==
    [][ (res'.n # res.n /\ res'.op \in GuardedOps /\ ~isUnlocked(_dek)) =>
          /\ res'.err # ""
          /\ res'.val = << >>
          /\ res'.out = NoWrap
          /\ UNCHANGED << store, sessionVars, vaultData >> ]_vars

\* the call right after the setup is a decryption that finds the vault
\* locked: the idle timer has locked it
C6_Witness ==
    /\ fired.any
    /\ fired.unlocked
    /\ res.op = "decryptEntryBody"
    /\ res.err = ErrLocked
    /\ res.before = [op |-> "enableVaultFirstTime", err |-> ""]

\* C7: identity binding.  A stored entry presented as stored, while the
\* vault is unlocked, for a triple (table, entryId, version) that differs
\* from the one it was encrypted for, fails to decrypt.
C7_IdentityBinding ==
    (/\ res.op = "decryptEntryBody"
     /\ ~res.wasLocked
     /\ Stored(res.req)
     /\ Unaltered(res.req)
     /\ ~OwnRecord(res.req)) =>
        res.err # ""

\* C8: entry round trip.  A stored entry presented as stored for its own
\* triple, while the vault is unlocked (in the session that wrote it or
\* after a lock and an unlock by passphrase or recovery code), decrypts to
\* the body that was encrypted.
C8_EntryRoundTrip ==
    (/\ res.op = "decryptEntryBody"
     /\ ~res.wasLocked
     /\ Stored(res.req)
     /\ OwnRecord(res.req)
     /\ Unaltered(res.req)) =>
        /\ res.err = ""
        /\ res.val = ItemOf(res.req.item).plain

\* C9: tamper detection.  A stored entry or backup payload presented with
\* its IV text or its ciphertext text altered fails to decrypt.
C9_TamperDetection ==
    (/\ res.op \in DecryptOps
     /\ Stored(res.req)
     /\ ~Unaltered(res.req)) =>
        res.err # ""

\* C10: idle auto-lock.  The idle timer fires idleMinutes after the event
\* that set it, and an unlocked vault is eventually locked.
C10_IdleAutoLock ==
    /\ [](fired.any =>
            /\ fired.age \div MsPerMinute = fired.min
            /\ fired.age % MsPerMinute = 0)
    /\ (isUnlocked(_dek) ~> ~isUnlocked(_dek))

\* C11: lockNow is total and idempotent.  A lockNow call, made in whatever
\* state the vault is in, returns without an error; right after it no DEK is
\* cached and no timer is pending; the persisted metadata is what it was;
\* and lockNow applied to the state it left gives that state again.
C11_LockNowIdempotent ==
    [][ (res'.n # res.n /\ res'.op = "lockNow") =>
          /\ res'.err = ""
          /\ ~isUnlocked(_dek')
          /\ timers' = {}
          /\ store' = store
          /\ lockNow(timers', _idleTimer').dek = _dek'
          /\ lockNow(timers', _idleTimer').timers = timers' ]_vars

\* lockNow was called on the unlocked vault, with its idle timer pending,
\* and then again on the locked vault
C11_Witness ==
    /\ isVaultEnabled(store)
    /\ res.n = 3
    /\ res.op = "lockNow"
    /\ res.before = [op |-> "lockNow", err |-> ""]
    /\ res.wasLocked
    /\ ~fired.any

\* C12: weak passphrase rejection at setup.  An enableVaultFirstTime call
\* with a passphrase of fewer than 8 characters (the empty one included)
\* fails with the weak-passphrase error and returns no recovery code; the
\* persisted metadata, the cached DEK, the idle timer and the rest of the
\* session state are what they were, and nothing was drawn or encrypted.
C12_WeakPassphraseRejected ==
    [][ (/\ res'.n # res.n
         /\ res'.op = "enableVaultFirstTime"
         /\ Len(res'.secret) < MinPassLen) =>
          /\ res'.err = ErrWeakPass
          /\ res'.val = << >>
          /\ UNCHANGED << store, sessionVars, rnd, gcm >>
          /\ (rnd.enable = 0 => store' = NoMeta) ]_vars

\* the vault was never enabled: a setup with a short passphrase was
\* refused, and then one with the empty passphrase
C12_Witness ==
    /\ store = NoMeta
    /\ res.op = "enableVaultFirstTime"
    /\ res.secret = PassEmpty
    /\ res.err = ErrWeakPass
    /\ res.before = [op |-> "enableVaultFirstTime", err |-> ErrWeakPass]
    /\ rnd.enable = 0

\* C13: single long-lived DEK.  Once the persisted metadata is enabled it
\* stays enabled, and no step changes the DEK that its passphrase wrap and
\* its recovery wrap protect; every entry and backup that was encrypted is
\* encrypted under that DEK, so it decrypts after a later unlock.
C13_SingleDek ==
    [][ isVaultEnabled(store) =>
          /\ isVaultEnabled(store')
          /\ PassWrapDek(store', gcm', user'.pass) = PassWrapDek(store, gcm, user.pass)
          /\ RecoveryWrapDek(store', gcm', user'.code)
               = RecoveryWrapDek(store, gcm, user.code)
          /\ \A item \in vaultData' :
                item.kind \in {"entry", "backup"} =>
                    item.dek.bytes = PassWrapDek(store', gcm', user'.pass) ]_vars

\* the texts of a metadata object or of a backup header: the two salts and
\* the IV and ciphertext of the two wraps (its other fields are numbers,
\* booleans and the names of the algorithms)
TextsOf(meta) ==
    { meta.kdf.salt, meta.recovery.salt,
      meta.wraps.pass.ivB64, meta.wraps.pass.ctB64,
      meta.wraps.recovery.ivB64, meta.wraps.recovery.ctB64 }

\* s, not empty, is a run of consecutive elements of text
Contains(text, s) ==
    /\ Len(s) > 0
    /\ \E i \in 1..(Len(text) - Len(s) + 1) : SubSeq(text, i, i + Len(s) - 1) = s

\* the passphrases and recovery codes the caller was given, as strings
SecretStrings(u) == {u.pass, u.code, u.oldPass, u.oldCode} \ {<< >>}

\* the bytes of the secrets: the strings in UTF-8, and the DEK
SecretBytes(u, dek) ==
    { textEncEncode(s) : s \in SecretStrings(u) }
    \cup (IF dek = NoKey THEN {} ELSE {dek.bytes})

\* no text of meta is or holds a secret, as it is or base64url-encoded
NoSecretIn(meta, u, dek) ==
    \A t \in TextsOf(meta) :
        /\ \A s \in SecretStrings(u) : ~Contains(t, s)
        /\ \E decoded \in {b64uToBuf(t)} :
               \A b \in SecretBytes(u, dek) : ~Contains(decoded, b)

\* C14: no plaintext secret at rest.  Whenever the persisted metadata is
\* written or a header is exported, no text in them is or holds the
\* passphrase, a recovery code or the DEK bytes, as they are or encoded; and
\* a call other than enableVaultFirstTime and regenerateRecoveryCode does
\* not return a recovery code.
C14_NoPlaintextSecret ==
    [][ /\ (store' # store /\ isVaultEnabled(store') =>
                NoSecretIn(store', user', setupDek'))
        /\ \A item \in vaultData' \ vaultData :
                item.header # NoHeader => NoSecretIn(item.header, user', setupDek')
        /\ (res'.n # res.n
              /\ res'.op \notin {"enableVaultFirstTime", "regenerateRecoveryCode"} =>
                \A s \in SecretStrings(user') \ {user'.pass, user'.oldPass} :
                    /\ ~Contains(res'.val, s)
                    /\ ~Contains(res'.out.ivB64, s)
                    /\ ~Contains(res'.out.ctB64, s)) ]_vars

\* the metadata was written by a second setup, the caller holds two
\* passphrases and two recovery codes, and a header was exported
C14_Witness ==
    /\ isVaultEnabled(store)
    /\ user.oldCode # << >>
    /\ res.op = "exportMetaForBackup"
    /\ res.err = ""
    /\ \E item \in vaultData : item.kind = "header"

\* the secret that opens the wrap of kind in the header of the vault that
\* was set up last
HeaderSecret(kind) == IF kind = "passphrase" THEN user.pass ELSE user.code

\* C15: standalone header unwrap.  unwrapDEKFromHeader, called in whatever
\* state the local session is in, leaves the persisted metadata, the cached
\* DEK and the idle timer as they were.  For a header of the vault that was
\* set up last it returns the DEK bytes of that vault when given kind
\* 'passphrase' with its passphrase or kind 'recovery' with its recovery
\* code, and fails for another secret; it fails for a kind it does not
\* know; and whenever it returns, it returns the DEK bytes the header was
\* exported for.
C15_HeaderUnwrap ==
    [][ (res'.n # res.n /\ res'.op = "unwrapDEKFromHeader") =>
          /\ UNCHANGED << store, sessionVars >>
          /\ (res'.err # "" => res'.val = << >>)
          /\ (res'.err = "" => res'.val = ItemOf(res'.req.item).dek.bytes)
          /\ (res'.req.key \notin {"passphrase", "recovery"} =>
                res'.err = ErrUnknownKind)
          /\ ((/\ res'.req.key \in {"passphrase", "recovery"}
               /\ ItemOf(res'.req.item).dek = setupDek) =>
                (res'.err = "" <=> res'.secret = HeaderSecret(res'.req.key))) ]_vars

\* the header was taken to a browser where no vault is enabled and its
\* recovery wrap was opened there with the recovery code
C15_Witness ==
    /\ store = NoMeta
    /\ ~isUnlocked(_dek)
    /\ res.op = "unwrapDEKFromHeader"
    /\ res.req.key = "recovery"
    /\ res.secret = user.code
    /\ res.err = ""
    /\ res.val = setupDek.bytes
    /\ res.before.op = "restart"

\* C16: backup round trip through the header.  A stored backup payload of
\* the vault that was set up last, presented as stored, decrypts to the
\* plaintext that was encrypted: with the key unwrapped from its header by
\* the passphrase or by the recovery code, and with the cached DEK.
C16_BackupRoundTrip ==
    (/\ res.op = "decryptBackupPayload"
     /\ Stored(res.req)
     /\ Unaltered(res.req)
     /\ ItemOf(res.req.item).dek = setupDek
     /\ (res.req.key = "cached" =>
            isUnlocked(_dek) /\ KeyMaterial(_dek) = setupDek)) =>
        /\ res.err = ""
        /\ res.val = ItemOf(res.req.item).plain

WriterOps == {"enableVaultFirstTime", "changePassphrase", "regenerateRecoveryCode"}

\* C17: metadata write frame.  The persisted metadata changes only in the
\* step in which an enableVaultFirstTime, changePassphrase or
\* regenerateRecoveryCode call returns: the call is suspended no longer, so
\* it writes once, and both wraps it stored are encryptions already made
\* (they open under the secrets the caller holds).  No other call, no idle
\* timer expiry, no activity event and no reload changes it.
C17_MetadataWriteFrame ==
    [][ /\ (store' # store =>
              /\ res'.n # res.n
              /\ res'.op \in WriterOps
              /\ res'.err = ""
              /\ \E c \in calls : c.op = res'.op /\ c \notin calls'
              /\ ~IsError(PassWrapDek(store', gcm', user'.pass))
              /\ ~IsError(RecoveryWrapDek(store', gcm', user'.code)))
        /\ (res'.n # res.n /\ res'.op \notin WriterOps => store' = store) ]_vars

\* on the enabled vault the idle minutes were set, an activity event
\* arrived, the idle timer expired, the vault was unlocked again, and a
\* backup payload was encrypted and decrypted
C17_Witness ==
    /\ isVaultEnabled(store)
    /\ _idleMin = 1
    /\ budget.activity = 0
    /\ fired.any
    /\ res.op = "decryptBackupPayload"
    /\ res.err = ""
    /\ res.before.op = "encryptBackupPayload"

C19_UnlockedOnlyBySecret ==
    [][ /\ (res'.n # res.n /\ res'.op = "restart" =>
              ~isUnlocked(_dek') /\ timers' = {})
        /\ (~isUnlocked(_dek) /\ isUnlocked(_dek') =>
              \/ /\ res'.n # res.n
                 /\ res'.op = "enableVaultFirstTime"
                 /\ res'.err = ""
              \/ /\ res'.n # res.n
                 /\ res'.op \in UnlockOps
                 /\ res'.err = ""
                 /\ res'.secret = CurrentSecret(res'.op)
              \/ \E c \in calls :
                    /\ c.op = "changePassphrase"
                    /\ c.pc = "unlock"
                    /\ c \notin calls'
                    /\ c.secret = user.pass) ]_vars

\* the page was loaded again with the vault enabled, a wrong passphrase was
\* refused and the vault is still locked with no timer pending
C19_Witness ==
    /\ isVaultEnabled(store)
    /\ ~isUnlocked(_dek)
    /\ timers = {}
    /\ res.n = 3
    /\ res.op = "unlockWithPassphrase"
    /\ res.err = ErrWrongPass
    /\ res.before.op = "restart"

\* C20: activity resets the countdown only while unlocked.  An activity
\* event that arrives while the vault is unlocked leaves one timer pending,
\* the new one, set for the full idle minutes; one that arrives while
\* the vault is locked changes nothing.  So a timer that expires has run
\* for the idle minutes since the event that set it: the vault does not
\* lock while events arrive less than the idle minutes apart.
C20_ActivityResets ==
    [][ /\ (budget'.activity # budget.activity =>
              IF isUnlocked(_dek)
                THEN /\ UNCHANGED << store, _dek, _idleMin >>
                     /\ \E t \in timers' :
                           /\ timers' = {t}
                           /\ t.id = _idleTimer'
                           /\ t.age = 0
                           /\ t.left \div MsPerMinute = _idleMin
                           /\ t.left % MsPerMinute = 0
                ELSE UNCHANGED << store, sessionVars >>)
        /\ (fired' # fired =>
              /\ fired'.age \div MsPerMinute = fired'.min
              /\ fired'.age % MsPerMinute = 0) ]_vars


\* the calls that cache a DEK when they return
CachingOps == UnlockOps \cup {"enableVaultFirstTime"}

\* the only pending timer is the one _idleTimer names, and it was set in
\* this step
FreshTimer(ts, held) ==
    \E t \in ts : ts = {t} /\ t.id = held /\ t.age = 0

\* C21: single idle timer.  In every state at most one timer is pending, it
\* is the one _idleTimer names, and one is pending exactly when a DEK is
\* cached.  A call that caches a DEK (enableVaultFirstTime, an unlock, the
\* inner unlock of changePassphrase) leaves the timer newly set in the step
\* in which it returns; a step that sets a new timer leaves no other one
\* pending; and a step that ends with no DEK cached (lockNow, the expiry of
\* the timer) leaves none pending.
C21_SingleIdleTimer ==
    /\ [](/\ Cardinality(timers) <= 1
          /\ (timers # {} <=> isUnlocked(_dek))
          /\ \A t \in timers : t.id = _idleTimer)
    /\ [][ /\ (res'.n # res.n /\ res'.op \in CachingOps /\ res'.err = "" =>
                 isUnlocked(_dek') /\ FreshTimer(timers', _idleTimer'))
           /\ \A c \in calls :
                 (/\ c.op = "changePassphrase"
                  /\ c.pc = "unlock"
                  /\ c \notin calls'
                  /\ res'.op # "restart"
                  /\ isUnlocked(_dek')
                  /\ (res'.n # res.n => res'.err = ErrWeakNewPass)) =>
                    FreshTimer(timers', _idleTimer')
           /\ (_idleTimer' # _idleTimer /\ timers' # {} =>
                 FreshTimer(timers', _idleTimer') /\ timers' \cap timers = {})
           /\ (res'.n # res.n /\ res'.op = "lockNow" => timers' = {})
           /\ (~isUnlocked(_dek') => timers' = {}) ]_vars

\* the idle timer expired and locked the vault, the recovery code unlocked
\* it again, and setIdleMinutes(1) replaced the pending timer
C21_Witness ==
    /\ fired.any
    /\ fired.unlocked
    /\ isUnlocked(_dek)
    /\ res.op = "setIdleMinutes"
    /\ res.before = [op |-> "unlockWithRecoveryCode", err |-> ""]
    /\ \E t \in timers : timers = {t} /\ t.min = 1 /\ t.age = 0


NotEnabledOps == {"unlockWithPassphrase", "unlockWithRecoveryCode",
                  "changePassphrase", "exportMetaForBackup"}

\* C22: not-enabled guard.  unlockWithPassphrase, unlockWithRecoveryCode,
\* changePassphrase or exportMetaForBackup, called while no metadata is
\* stored or the stored item has no true enabled flag, fails with the
\* not-enabled error in the step in which it is called: it is not suspended
\* at an await, nothing was drawn or encrypted, it returns nothing, and the
\* session state, the metadata and the stored items are what they were.
C22_NotEnabledGuard ==
    [][ (/\ budget' # budget
         /\ ~loadVaultMeta(store).enabled
         /\ \/ res'.n # res.n /\ res'.op \in NotEnabledOps
            \/ \E c \in calls' \ calls : c.op \in NotEnabledOps) =>
          /\ res'.n # res.n
          /\ res'.err = ErrNotEnabled
          /\ res'.val = << >>
          /\ UNCHANGED << store, sessionVars, calls, rnd, gcm, vaultData >> ]_vars

\* the process started where the stored item has no enabled flag, and the
\* recovery code of the vault set up before was refused as not enabled
C22_Witness ==
    /\ store = DisabledMeta
    /\ user.code # << >>
    /\ res.op = "unlockWithRecoveryCode"
    /\ res.secret = user.code
    /\ res.err = ErrNotEnabled
    /\ res.before.op = "restart"


\* iteration counts a stored metadata may hold: none, less than the
\* default, the default, and more
IterationInputs == {0, 1, DefaultIterations, DefaultIterations + 1, 4 * DefaultIterations}

\* metadata st as read with both iteration counts n, and a DEK that
\* exportKey returns
WithIterations(st, n) ==
    [st EXCEPT !.kdf = [@ EXCEPT !.iterations = n],
               !.recovery = [@ EXCEPT !.iterations = n]]

ExportableDek == importKeyRaw(setupDek.bytes, TRUE)

\* C23: iteration counts never decrease.  Every metadata the calls write
\* has kdf.iterations and recovery.iterations of at least 150000, and a
\* changePassphrase (regenerateRecoveryCode) that writes stores a
\* kdf.iterations (recovery.iterations) not lower than the one it read.
\* Lines 219-233 and 243-251, applied to the stored metadata read with any
\* iteration count and to a DEK that can be exported, give a count that is
\* at least 150000 and at least the one read, and keep the other path.
C23_IterationsNeverDecrease ==
    [][ /\ (store' # store /\ isVaultEnabled(store') =>
              /\ store'.kdf.iterations >= DefaultIterations
              /\ store'.recovery.iterations >= DefaultIterations)
        /\ \A c \in calls \ calls' :
              (store' # store /\ res'.op = c.op /\ isVaultEnabled(c.meta)) =>
                 /\ (c.op = "changePassphrase" =>
                        store'.kdf.iterations >= c.meta.kdf.iterations)
                 /\ (c.op = "regenerateRecoveryCode" =>
                        store'.recovery.iterations >= c.meta.recovery.iterations)
        /\ (isVaultEnabled(store') /\ setupDek' # NoKey =>
              \A n \in IterationInputs :
                 \E m \in {WithIterations(store', n)} :
                 \E ch \in {changePassphrase(gcm', m, PassB, ExportableDek',
                                             ChangeSeed(0), ChangeSeed(0) + 1)} :
                 \E rg \in {regenerateRecoveryCode(gcm', m, ExportableDek',
                                                   RegenSeed(0), RegenSeed(0) + 2)} :
                    /\ ch.err = ""
                    /\ ch.meta.kdf.iterations >= DefaultIterations
                    /\ ch.meta.kdf.iterations >= n
                    /\ ch.meta.recovery = m.recovery
                    /\ rg.err = ""
                    /\ rg.meta.recovery.iterations >= DefaultIterations
                    /\ rg.meta.recovery.iterations >= n
                    /\ rg.meta.kdf = m.kdf) ]_vars

\* the metadata was written by the setup, and a passphrase change and a
\* regeneration were attempted on it
C23_Witness ==
    /\ isVaultEnabled(store)
    /\ store.kdf.iterations = DefaultIterations
    /\ store.recovery.iterations = DefaultIterations
    /\ res.op = "regenerateRecoveryCode"
    /\ res.before.op = "changePassphrase"
    /\ ~res.wasLocked


\* C24: a failed changePassphrase changes nothing.  When changePassphrase
\* ends with the wrong-passphrase error or with the weak-new-passphrase
\* error, the persisted metadata and the cached DEK are what they were: a
\* vault that was locked is still locked.
C24_FailedChangeNoEffect ==
    [][ (/\ res'.n # res.n
         /\ res'.op = "changePassphrase"
         /\ res'.err \in {ErrWrongPass, ErrWeakNewPass}) =>
          /\ store' = store
          /\ _dek' = _dek
          /\ (~isUnlocked(_dek) => ~isUnlocked(_dek')) ]_vars


\* C25: lock wins over an unlock in flight.  An unlockWithPassphrase,
\* unlockWithRecoveryCode or enableVaultFirstTime call was made while the
\* vault was unlocked and is suspended at an await; the vault is locked now,
\* so lockNow ran (called, or as the callback of the idle timer) after the
\* call was made.  When the call returns, the vault is still locked.
C25_LockWinsOverUnlockInFlight ==
    [][ \A c \in calls :
          (/\ c.op \in CachingOps
           /\ ~c.wasLocked
           /\ ~isUnlocked(_dek)
           /\ c \notin calls'
           /\ res'.n # res.n
           /\ res'.op = c.op) =>
             ~isUnlocked(_dek') ]_vars


\* C26: the cached DEK matches the stored wraps.  Whenever a DEK is cached,
\* under any interleaving of the lifecycle calls, it is the DEK that the
\* passphrase wrap and the recovery wrap of the persisted metadata protect.
C26_CachedDekMatchesWraps ==
    (isUnlocked(_dek) /\ isVaultEnabled(store)) =>
        /\ _dek.bytes = PassWrapDek(store, gcm, user.pass)
        /\ _dek.bytes = RecoveryWrapDek(store, gcm, user.code)


RotationOps == {"changePassphrase", "regenerateRecoveryCode"}

\* rotation c, which has loaded the metadata, overlaps a rotation of the
\* other path: that one is in flight and has loaded the metadata too, or it
\* was the last call to return and saved after c loaded
OverlapsOtherRotation(c) ==
    \/ \E d \in calls : d.op \in RotationOps \ {c.op} /\ d.pc = "derive"
    \/ /\ res.op \in RotationOps \ {c.op}
       /\ res.err = ""
       /\ c.meta # store

\* C27: overlapping rotations both take effect.  A changePassphrase call
\* and a regenerateRecoveryCode call overlap on an unlocked vault, each
\* having loaded the metadata before the other saved.  Each of them
\* returns without an error, and the metadata it leaves holds the wraps of
\* the newest passphrase and of the newest recovery code: both unlock.
C27_OverlappingRotations ==
    [][ \A c \in calls \ calls' :
          (/\ res'.n # res.n
           /\ res'.op = c.op
           /\ c.op \in RotationOps
           /\ c.pc = "derive"
           /\ isUnlocked(_dek)
           /\ OverlapsOtherRotation(c)) =>
             /\ res'.err = ""
             /\ ~IsError(PassWrapDek(store', gcm', user'.pass))
             /\ ~IsError(RecoveryWrapDek(store', gcm', user'.code)) ]_vars

\* C28: no plaintext export from an enabled vault.  exportSmartJson and
\* exportEncryptedBackup, called while the vault is enabled, never return the
\* clear JSON of the database: called on a locked vault they throw at once;
\* otherwise, when the read of the tables ends, they throw because the vault
\* was locked meanwhile (by lockNow or by the idle timer) or because the
\* read was rejected, or they return an envelope that isEncryptedBackup
\* accepts, whose text and whose base64url fields do not contain the clear
\* JSON, and whose payload decrypts to it under the cached DEK.
ExportedFile(st, outcome) ==
    CHOOSE item \in st : item.n = outcome.req.item

C29_ImportAllOrNothing ==
    [][ (res'.n # res.n /\ res'.op = "importSmartFromFileText") =>
          LET item == ItemOf(res'.req.item)
              missing == res'.req.key = "" \/ res'.secret = << >>
              opens == \/ res'.req.key = "passphrase" /\ res'.secret = user.pass
                       \/ res'.req.key = "recovery" /\ res'.secret = user.code
              authentic == /\ res'.req.ivB64 = item.ivB64
                           /\ res'.req.ctB64 = item.ctB64
              valid == \E d \in Databases, t \in 0..res.n :
                          item.plain = exportAllAsJson(d, t)
          IN  /\ missing => res'.err = ErrNeedsSecret
              /\ (~missing /\ ~opens) => res'.err \in {ErrOperation, ErrUnknownKind}
              /\ (~missing /\ opens /\ ~authentic) =>
                     res'.err \in {ErrOperation, ErrInvalidCharacter}
              /\ (~missing /\ opens /\ authentic /\ ~valid) => res'.err = ErrNotJson
              /\ (missing \/ ~opens \/ ~authentic \/ ~valid) =>
                     /\ res'.err # ""
                     /\ res'.val = << >>
                     /\ db' = db
              /\ (~missing /\ opens /\ authentic /\ valid) =>
                     /\ res'.val = item.plain
                     /\ res'.err = (IF res'.req.commits THEN "" ELSE ErrDatabase)
                     /\ ~res'.req.commits => db' = db
      ]_vars

\* an import in replace mode into a table that holds rows was rejected: the
\* recovery code was given as the passphrase
C29_Witness ==
    /\ res.op = "importSmartFromFileText"
    /\ res.req.mode = "replace"
    /\ res.req.key = "passphrase"
    /\ res.secret = user.code
    /\ res.err = ErrOperation
    /\ db # {}

\* C30: the normalisation of the idle minutes.  After setIdleMinutes(x),
\* for any x, getIdleMinutes() is an integer that is at least 1: 15 for 0,
\* NaN, null and undefined, and the floor of any other finite number, or 1
\* when that is below 1.  On an unlocked vault the pending timer is
\* cancelled and one is started that is due after the new number of
\* minutes; on a vault that is locked or not set up no timer is pending.
\* The call changes neither the cached DEK nor the stored metadata.
getIdleMinutes(idleMin) == idleMin

C30_IdleMinutesNormalised ==
    [][ (res'.n # res.n /\ res'.op = "setIdleMinutes") =>
          /\ getIdleMinutes(_idleMin') \in Nat \ {0}
          /\ res'.req.x \in {JsInt(0), JsNaN, JsNull, JsUndefined} =>
                 getIdleMinutes(_idleMin') = 15
          /\ (res'.req.x.t = "number" /\ res'.req.x.n # 0) =>
                 getIdleMinutes(_idleMin')
                     = Max(1, res'.req.x.n \div res'.req.x.d)
          /\ isUnlocked(_dek) =>
                 /\ _idleTimer' \notin TimerIds(timers)
                 /\ Cardinality(timers') = 1
                 /\ \A t \in timers' :
                       /\ t.id = _idleTimer'
                       /\ t.age = 0
                       /\ t.left \div MsPerMinute = _idleMin'
                       /\ t.left % MsPerMinute = 0
          /\ ~isUnlocked(_dek) => timers' = {}
          /\ _dek' = _dek
          /\ store' = store
      ]_vars

====
